------------------------------- MODULE JobQueue -------------------------------
(***************************************************************************)
(* examples/job_queue: the queue server, its workers and the retries.      *)
(*                                                                         *)
(* The queue takes a message when it is done with the one before; what a   *)
(* message asks for is a step, and so is each job of a batch and each turn *)
(* of the loop of dispatch_next(), with the steps of the workers between   *)
(* them.  A job is sent to the queue again by a timer, as the bare         *)
(* message: the queue takes casts in an envelope only, and this is none.   *)
(***************************************************************************)
EXTENDS Naturals, Sequences

CONSTANTS
    MaxJobs,        \* bound: jobs the producer makes
    MaxWorkers,     \* bound: workers started; with no more left a start fails
    MaxJobCommands, \* bound: AddWorker, RemoveWorker and stops of a worker
    MaxDepth        \* MAX_QUEUE_DEPTH

MaxRetries == 3
JobId == 1 .. MaxJobs
Worker == 1 .. MaxWorkers
Job == [id : JobId, retry : 0 .. MaxRetries + 1]
NoJob == [id |-> 0, retry |-> 0]
StopMessage == NoJob
NoWorker == 0
Message ==
    [type : {"enqueue", "finished", "add", "remove", "down", "retry"},
     jobs : Seq(Job), worker : Worker \cup {NoWorker}, ok : BOOLEAN]
Msg(type, jobs, worker, ok) == [type |-> type, jobs |-> jobs, worker |-> worker, ok |-> ok]

VARIABLES
    pending, inFlight, idle, all,  \* the fields of the queue
    batch,       \* jobs of the message in hand that are not enqueued yet
    dispatching, \* the queue is in the loop of dispatch_next()
    mailbox,     \* what the queue has yet to take
    worker,      \* each worker process; a panicked one counts as alive
    wbox,        \* jobs and stop messages in the mailbox of each worker
    working,     \* the job each worker is busy with
    timers,      \* jobs that wait for their retry
    dead,        \* the dead letters
    refused, done, lost,           \* history: jobs refused, done, ignored as retries
    nextJob, nextWorker, commands  \* counters of the bounds

queueVars == <<pending, inFlight, idle, all, batch, dispatching>>
workerVars == <<worker, wbox, working>>
fates == <<timers, dead, refused, done, lost>>
counters == <<nextJob, nextWorker, commands>>
vars == <<queueVars, mailbox, workerVars, fates, counters>>

TypeOK ==
    /\ pending \in Seq(Job) /\ batch \in Seq(Job) /\ idle \in Seq(Worker)
    /\ inFlight \in [Worker -> Job \cup {NoJob}]
    /\ all \subseteq Worker /\ dispatching \in BOOLEAN
    /\ mailbox \in Seq(Message)
    /\ worker \in [Worker -> {"none", "alive", "gone", "panicked"}]
    /\ wbox \in [Worker -> Seq(Job \cup {StopMessage})]
    /\ working \in [Worker -> Job \cup {NoJob}]
    /\ timers \subseteq Job /\ dead \subseteq JobId /\ refused \subseteq JobId
    /\ done \subseteq JobId /\ lost \subseteq JobId
    /\ nextJob \in 1 .. MaxJobs + 1 /\ nextWorker \in 2 .. MaxWorkers + 1
    /\ commands \in 0 .. MaxJobCommands

Init ==
    /\ pending = <<>> /\ batch = <<>> /\ idle = <<1>> /\ all = {1}
    /\ inFlight = [w \in Worker |-> NoJob]
    /\ dispatching = FALSE
    /\ mailbox = <<>>
    /\ worker = [w \in Worker |-> IF w = 1 THEN "alive" ELSE "none"]
    /\ wbox = [w \in Worker |-> <<>>]
    /\ working = [w \in Worker |-> NoJob]
    /\ timers = {} /\ dead = {} /\ refused = {} /\ done = {} /\ lost = {}
    /\ nextJob = 1 /\ nextWorker = 2 /\ commands = 0

-----------------------------------------------------------------------------
(* The loops of the queue. *)
Last(s) == s[Len(s)]
Front(s) == SubSeq(s, 1, Len(s) - 1)
Has(s, x) == \E i \in DOMAIN s : s[i] = x

(* The sequence without x, which is in it once if at all.                  *)
Without(s, x) ==
    IF Has(s, x)
    THEN LET at == CHOOSE i \in DOMAIN s : s[i] = x
         IN  [i \in 1 .. Len(s) - 1 |-> s[IF i < at THEN i ELSE i + 1]]
    ELSE s

(* The next job of the message in hand: one too many is turned away.       *)
Enqueue ==
    /\ ~dispatching /\ batch # <<>>
    /\ batch' = Tail(batch)
    /\ IF Len(pending) >= MaxDepth
       THEN /\ refused' = refused \cup {Head(batch).id}
            /\ UNCHANGED <<pending, dispatching>>
       ELSE /\ pending' = Append(pending, Head(batch))
            /\ dispatching' = TRUE
            /\ UNCHANGED refused
    /\ UNCHANGED <<inFlight, idle, all, mailbox, workerVars, timers, dead, done, lost, counters>>

Popped == dispatching /\ idle # <<>> /\ idle' = Front(idle)

(* Mutant of DispatchDead: the job is taken before the worker is looked at. *)
DispatchDeadPopped ==
    /\ Popped
    /\ worker[Last(idle)] = "gone"
    /\ all' = all \ {Last(idle)}
    /\ pending' = IF pending = <<>> THEN <<>> ELSE Tail(pending)
    /\ UNCHANGED <<inFlight, batch, dispatching, mailbox, workerVars, fates, counters>>

(* A worker that is dead is forgotten, whatever there is to do.            *)
DispatchDead ==
    /\ Popped
    /\ worker[Last(idle)] = "gone"
    /\ all' = all \ {Last(idle)}
    /\ UNCHANGED <<pending, inFlight, batch, dispatching, mailbox, workerVars, fates, counters>>

(* The cast is not read before the entry is in: the worker's answer is     *)
(* another message to the queue.                                           *)
DispatchJob ==
    LET w == Last(idle)  job == Head(pending)
    IN  /\ Popped
        /\ worker[w] # "gone" /\ pending # <<>>
        /\ pending' = Tail(pending)
        /\ inFlight' = [inFlight EXCEPT ![w] = job]
        /\ wbox' = [wbox EXCEPT ![w] = Append(@, job)]
        /\ UNCHANGED <<all, batch, dispatching, mailbox, worker, working, fates, counters>>

DispatchEnds ==
    /\ dispatching
    /\ idle # <<>> => worker[Last(idle)] # "gone" /\ pending = <<>>
    /\ dispatching' = FALSE
    /\ UNCHANGED <<pending, inFlight, idle, all, batch, mailbox, workerVars, fates, counters>>

-----------------------------------------------------------------------------
(* The messages to the queue. *)
Takes(type) ==
    /\ ~dispatching /\ batch = <<>>
    /\ mailbox # <<>> /\ Head(mailbox).type = type
    /\ mailbox' = Tail(mailbox)

(* The job, if there is one, waits for its retry or is given up. *)
SendToRetry(job) ==
    /\ timers' = IF job # NoJob /\ job.retry + 1 <= MaxRetries
                 THEN timers \cup {[job EXCEPT !.retry = @ + 1]} ELSE timers
    /\ dead' = IF job # NoJob /\ job.retry + 1 > MaxRetries
               THEN dead \cup {job.id} ELSE dead

HandleEnqueue ==
    /\ Takes("enqueue")
    /\ batch' = Head(mailbox).jobs
    /\ UNCHANGED <<pending, inFlight, idle, all, dispatching, workerVars, fates, counters>>

HandleJobFinished ==
    LET w == Head(mailbox).worker
    IN  /\ Takes("finished")
        /\ inFlight' = [inFlight EXCEPT ![w] = NoJob]
        /\ idle' = Append(idle, w)
        /\ SendToRetry(IF Head(mailbox).ok THEN NoJob ELSE inFlight[w])
        /\ dispatching' = TRUE
        /\ UNCHANGED <<pending, all, batch, workerVars, refused, done, lost, counters>>

(* start_child() may fail, and then the worker is not replaced. *)
SpawnWorker(idlers, known) ==
    \/ /\ nextWorker \in Worker
       /\ nextWorker' = nextWorker + 1
       /\ worker' = [worker EXCEPT ![nextWorker] = "alive"]
       /\ all' = known \cup {nextWorker} /\ idle' = Append(idlers, nextWorker)
       /\ dispatching' = TRUE
    \/ /\ all' = known /\ idle' = idlers
       /\ UNCHANGED <<nextWorker, worker, dispatching>>

HandleAddWorker ==
    /\ Takes("add")
    /\ SpawnWorker(idle, all)
    /\ UNCHANGED <<pending, inFlight, batch, wbox, working, fates, nextJob, commands>>

(* terminate_child() sends the worker a Shutdown, which counts as normal:  *)
(* the worker lives on, and nobody knows it any more.                      *)
HandleRemoveWorker ==
    /\ Takes("remove")
    /\ idle' = IF idle = <<>> THEN idle ELSE Front(idle)
    /\ all' = IF idle = <<>> THEN all ELSE all \ {Last(idle)}
    /\ UNCHANGED <<pending, inFlight, batch, dispatching, workerVars, fates, counters>>

(* A worker ended: the second DOWN of it finds it untracked. *)
HandleDown ==
    LET w == Head(mailbox).worker
    IN  /\ Takes("down")
        /\ \/ /\ w \in all
              /\ inFlight' = [inFlight EXCEPT ![w] = NoJob]
              /\ SendToRetry(inFlight[w])
              /\ SpawnWorker(Without(idle, w), all \ {w})
           \/ /\ w \notin all
              /\ UNCHANGED <<inFlight, timers, dead, all, idle, nextWorker, worker, dispatching>>
        /\ UNCHANGED <<pending, batch, wbox, working, refused, done, lost, nextJob, commands>>

(* A retry that comes back is no cast, and no DOWN either.                 *)
IgnoreRetry ==
    /\ Takes("retry")
    /\ lost' = lost \cup {Head(mailbox).jobs[1].id}
    /\ UNCHANGED <<queueVars, workerVars, timers, dead, refused, done, counters>>

-----------------------------------------------------------------------------
(* The others. *)
Post(m) == mailbox' = Append(mailbox, m)
Spend == commands < MaxJobCommands /\ commands' = commands + 1

(* The producer's batch. *)
Produce ==
    /\ \E n \in 1 .. 2 :
          /\ nextJob + n <= MaxJobs + 1
          /\ nextJob' = nextJob + n
          /\ Post(Msg("enqueue", [i \in 1 .. n |-> [id |-> nextJob + i - 1, retry |-> 0]], NoWorker, TRUE))
    /\ UNCHANGED <<queueVars, workerVars, fates, nextWorker, commands>>

Command ==
    /\ Spend
    /\ \E type \in {"add", "remove"} : Post(Msg(type, <<>>, NoWorker, TRUE))
    /\ UNCHANGED <<queueVars, workerVars, fates, nextJob, nextWorker>>

(* gen_server::stop(): the worker ends when it comes to the message.       *)
StopWorker(w) ==
    /\ Spend
    /\ worker[w] = "alive"
    /\ wbox' = [wbox EXCEPT ![w] = Append(@, StopMessage)]
    /\ UNCHANGED <<queueVars, mailbox, worker, working, fates, nextJob, nextWorker>>

(* The monitors of start_child() and of spawn_worker() are both the        *)
(* queue's.                                                                *)
WorkerEnds(w) ==
    /\ worker[w] = "alive" /\ working[w] = NoJob
    /\ wbox[w] # <<>> /\ Head(wbox[w]) = StopMessage
    /\ worker' = [worker EXCEPT ![w] = "gone"]
    /\ wbox' = [wbox EXCEPT ![w] = <<>>]
    /\ mailbox' = mailbox \o <<Msg("down", <<>>, w, TRUE), Msg("down", <<>>, w, TRUE)>>
    /\ UNCHANGED <<queueVars, working, fates, counters>>

Process(w) ==
    /\ worker[w] = "alive" /\ working[w] = NoJob
    /\ wbox[w] # <<>> /\ Head(wbox[w]) # StopMessage
    /\ working' = [working EXCEPT ![w] = Head(wbox[w])]
    /\ wbox' = [wbox EXCEPT ![w] = Tail(@)]
    /\ UNCHANGED <<queueVars, mailbox, worker, fates, counters>>

(* The result of the simulated work is chosen freely. *)
Finish(w, ok) ==
    /\ working[w] # NoJob
    /\ working' = [working EXCEPT ![w] = NoJob]
    /\ done' = IF ok THEN done \cup {working[w].id} ELSE done
    /\ Post(Msg("finished", <<>>, w, ok))
    /\ UNCHANGED <<queueVars, worker, wbox, timers, dead, refused, lost, counters>>

(* A panic ends the task and nothing else: no DOWN is sent, and casts to   *)
(* the process are still taken in.                                         *)
WorkerPanics(w) ==
    /\ working[w] # NoJob
    /\ working' = [working EXCEPT ![w] = NoJob]
    /\ worker' = [worker EXCEPT ![w] = "panicked"]
    /\ wbox' = [wbox EXCEPT ![w] = <<>>]
    /\ UNCHANGED <<queueVars, mailbox, fates, counters>>

TimerFires(job) ==
    /\ job \in timers
    /\ timers' = timers \ {job}
    /\ Post(Msg("retry", <<job>>, NoWorker, TRUE))
    /\ UNCHANGED <<queueVars, workerVars, dead, refused, done, lost, counters>>

Next ==
    \/ Enqueue \/ DispatchDead \/ DispatchJob \/ DispatchEnds
    \/ HandleEnqueue \/ HandleJobFinished \/ HandleAddWorker \/ HandleRemoveWorker
    \/ HandleDown \/ IgnoreRetry \/ Produce \/ Command
    \/ \E w \in Worker :
          \/ StopWorker(w) \/ WorkerEnds(w) \/ Process(w) \/ WorkerPanics(w)
          \/ \E ok \in BOOLEAN : Finish(w, ok)
    \/ \E job \in timers : TimerFires(job)

Spec == Init /\ [][Next]_vars

-----------------------------------------------------------------------------
Expected(type, w) == \E i \in DOMAIN mailbox : mailbox[i].type = type /\ mailbox[i].worker = w
IsJob(x) == x # StopMessage
HasJob(w) == \E i \in DOMAIN wbox[w] : IsJob(wbox[w][i])

(* The queue knows what each worker is at: the job a worker holds or       *)
(* reports on is the one in_flight has for it, so that it can be taken     *)
(* back when the worker ends, no worker has two, and one that is idle has  *)
(* none and is in the list once.                                           *)
JobsTracked ==
    /\ \A w \in Worker :
          /\ working[w] # NoJob => inFlight[w] = working[w] /\ ~HasJob(w)
          /\ Expected("finished", w) => inFlight[w] # NoJob /\ working[w] = NoJob /\ ~HasJob(w)
          /\ \A i \in DOMAIN wbox[w] : IsJob(wbox[w][i]) =>
                 /\ wbox[w][i] = inFlight[w]
                 /\ \A j \in DOMAIN wbox[w] : IsJob(wbox[w][j]) => j = i
    /\ \A i, j \in DOMAIN idle :
          inFlight[idle[i]] = NoJob /\ (idle[j] = idle[i] => j = i)

(* A worker the queue counts on that has ended is about to be announced to *)
(* it. A worker that panics is not: its task unwinds past the code that    *)
(* sends the DOWN.                                                         *)
EndsAnnounced == \A w \in all : worker[w] = "gone" => Expected("down", w)

Holds(s, j) == \E i \in DOMAIN s : s[i].id = j

(* A job that was made is pending, with a worker, waiting for its retry,   *)
(* done, dead or refused, whatever workers are added, removed, stopped or  *)
(* panic meanwhile; only a retry that came back is lost.                   *)
JobsKept ==
    \A j \in 1 .. nextJob - 1 :
        \/ j \in done \cup lost \cup dead \cup refused
        \/ Holds(pending, j) \/ Holds(batch, j)
        \/ \E w \in Worker : inFlight[w].id = j
        \/ \E job \in timers : job.id = j
        \/ \E i \in DOMAIN mailbox : Holds(mailbox[i].jobs, j)
=============================================================================
