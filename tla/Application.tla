------------------------------ MODULE Application ------------------------------
(***************************************************************************)
(* application/core.rs: the controller that starts applications after what *)
(* they depend on, and stops them, for several callers at once.  The two   *)
(* tables are locked for each access only.                                 *)
(*                                                                         *)
(* visit_deps() is a step for each name it comes to and each it is done    *)
(* with.  It reads nothing that changes meanwhile: stop_all() holds the    *)
(* locks of both tables, and a start looks at the registered applications  *)
(* only.  So no step of another caller is put between two of its steps.    *)
(***************************************************************************)
EXTENDS Naturals, Sequences, SequencesExt

CONSTANTS
    App,
    DependencyList, \* what an application may declare to depend on
    User,           \* tasks that use the controller
    MaxAppCalls     \* bound: calls

NoApp == "no_app"
NoUser == "no_user"

VARIABLES
    spec,       \* the dependencies of each application, in order
    registered, \* applications with a specification in the controller
    up,         \* running
    todo,       \* what each user's call has yet to start or stop
    doing,      \* what each user's call is
    launching,  \* the application a user's call has decided to start
    began,      \* history: applications whose start function has returned Ok
    appCalls,
    resolver,   \* the user whose call is in visit_deps
    roots,      \* the names it has yet to begin with
    path,       \* the way from the name it began with to the one it is at
    left,       \* dependencies yet to be visited, of those on the path
    order       \* what was visited: `result`, and `visited` as well

callVars == <<todo, doing, launching, appCalls>>
visitVars == <<resolver, roots, path, left, order>>
vars == <<spec, registered, up, began, callVars, visitVars>>

TypeOK ==
    /\ spec \in [App -> Seq(App)]
    /\ registered \subseteq App /\ up \subseteq App /\ began \subseteq App
    /\ todo \in [User -> Seq(App)]
    /\ doing \in [User -> {"idle", "start", "stop", "stop_all"}]
    /\ launching \in [User -> App \cup {NoApp}]
    /\ appCalls \in 0 .. MaxAppCalls
    /\ resolver \in User \cup {NoUser}
    /\ roots \subseteq App /\ path \in Seq(App) /\ order \in Seq(App)
    /\ left \in [App -> Seq(App)]

(* Any dependencies, those of an application on itself or in a ring, too.  *)
Init ==
    /\ spec \in [App -> DependencyList]
    /\ registered \in {App} \cup {App \ {a} : a \in App}
    /\ up = {} /\ began = {}
    /\ todo = [u \in User |-> <<>>]
    /\ doing = [u \in User |-> "idle"]
    /\ launching = [u \in User |-> NoApp]
    /\ appCalls = 0
    /\ resolver = NoUser /\ roots = {} /\ path = <<>> /\ order = <<>>
    /\ left = [a \in App |-> <<>>]

-----------------------------------------------------------------------------
(* visit_deps *)
Resolve(u, names) ==
    /\ resolver' = u /\ roots' = names
    /\ UNCHANGED <<path, left, order>>

(* The next name: one to begin with, or the next dependency of the last    *)
(* application on the path, which has the others left.                     *)
Visits(a) ==
    /\ resolver # NoUser
    /\ IF path = <<>> THEN a \in roots
       ELSE left[Last(path)] # <<>> /\ a = Head(left[Last(path)])
    /\ roots' = IF path = <<>> THEN roots \ {a} ELSE roots

Others == IF path = <<>> THEN left ELSE [left EXCEPT ![Last(path)] = Tail(@)]

SkipVisited(a) ==
    /\ Visits(a)
    /\ ~Contains(path, a) /\ Contains(order, a)
    /\ left' = Others
    /\ UNCHANGED <<spec, registered, up, began, callVars, resolver, path, order>>

(* Mutant of Visit: an application goes into the order before what it      *)
(* depends on.                                                             *)
VisitFirst(a) ==
    /\ Visits(a)
    /\ ~Contains(path, a) /\ ~Contains(order, a) /\ a \in registered
    /\ path' = Append(path, a)
    /\ order' = Append(order, a)
    /\ left' = [Others EXCEPT ![a] = spec[a]]
    /\ UNCHANGED <<spec, registered, up, began, callVars, resolver>>

Visit(a) ==
    /\ Visits(a)
    /\ ~Contains(path, a) /\ ~Contains(order, a) /\ a \in registered
    /\ path' = Append(path, a)
    /\ left' = [Others EXCEPT ![a] = spec[a]]
    /\ UNCHANGED <<spec, registered, up, began, callVars, resolver, order>>

(* A ring, or a name that is not registered: a start is refused, stop_all() *)
(* goes on with the next of what runs.                                     *)
VisitFails(a) ==
    /\ Visits(a)
    /\ Contains(path, a) \/ (~Contains(order, a) /\ a \notin registered)
    /\ path' = <<>> /\ left' = [b \in App |-> <<>>]
    /\ \/ /\ doing[resolver] = "start"
          /\ doing' = [doing EXCEPT ![resolver] = "idle"]
          /\ resolver' = NoUser /\ order' = <<>>
       \/ /\ doing[resolver] = "stop_all"
          /\ UNCHANGED <<doing, resolver, order>>
    /\ UNCHANGED <<spec, registered, up, began, todo, launching, appCalls>>

(* All its dependencies were visited. *)
Leave ==
    /\ path # <<>> /\ left[Last(path)] = <<>>
    /\ order' = Append(order, Last(path))
    /\ path' = Front(path)
    /\ UNCHANGED <<spec, registered, up, began, callVars, resolver, roots, left>>

Resolved ==
    /\ resolver # NoUser /\ path = <<>> /\ roots = {}
    /\ todo' = [todo EXCEPT ![resolver] =
                    IF doing[resolver] = "start" THEN order ELSE Reverse(order)]
    /\ resolver' = NoUser /\ order' = <<>>
    /\ UNCHANGED <<spec, registered, up, began, doing, launching, appCalls, roots, path, left>>

-----------------------------------------------------------------------------
Calls(u, what) ==
    /\ resolver = NoUser
    /\ doing[u] = "idle"
    /\ appCalls < MaxAppCalls
    /\ appCalls' = appCalls + 1
    /\ doing' = [doing EXCEPT ![u] = what]
    /\ UNCHANGED <<spec, registered, up, began, launching>>

(* start_with_config() is refused when the application runs. *)
Start(u, a) ==
    /\ a \notin up
    /\ Calls(u, "start") /\ Resolve(u, {a})
    /\ UNCHANGED todo

Goes(u, what) == resolver = NoUser /\ doing[u] \in what

(* The next of the order: skipped when it runs by now. *)
SkipRunning(u) ==
    /\ Goes(u, {"start"}) /\ launching[u] = NoApp /\ todo[u] # <<>>
    /\ Head(todo[u]) \in up
    /\ todo' = [todo EXCEPT ![u] = Tail(@)]
    /\ UNCHANGED <<spec, registered, up, began, doing, launching, appCalls, visitVars>>

Launch(u) ==
    /\ Goes(u, {"start"}) /\ launching[u] = NoApp /\ todo[u] # <<>>
    /\ Head(todo[u]) \notin up
    /\ launching' = [launching EXCEPT ![u] = Head(todo[u])]
    /\ todo' = [todo EXCEPT ![u] = Tail(@)]
    /\ UNCHANGED <<spec, registered, up, began, doing, appCalls, visitVars>>

(* The start function returns, and the application is recorded. *)
Launched(u) ==
    /\ Goes(u, {"start"}) /\ launching[u] # NoApp
    /\ up' = up \cup {launching[u]}
    /\ began' = began \cup {launching[u]}
    /\ launching' = [launching EXCEPT ![u] = NoApp]
    /\ UNCHANGED <<spec, registered, todo, doing, appCalls, visitVars>>

(* The start function fails: what was started before stays. *)
LaunchFails(u) ==
    /\ Goes(u, {"start"}) /\ launching[u] # NoApp
    /\ launching' = [launching EXCEPT ![u] = NoApp]
    /\ doing' = [doing EXCEPT ![u] = "idle"]
    /\ todo' = [todo EXCEPT ![u] = <<>>]
    /\ UNCHANGED <<spec, registered, up, began, appCalls, visitVars>>

(* stop() and stop_all(). *)
Stop(u, a) ==
    /\ a \in up
    /\ Calls(u, "stop")
    /\ todo' = [todo EXCEPT ![u] = <<a>>]
    /\ UNCHANGED visitVars

StopAll(u) ==
    /\ up # {}
    /\ Calls(u, "stop_all") /\ Resolve(u, up)
    /\ UNCHANGED todo

StopNext(u) ==
    /\ Goes(u, {"stop", "stop_all"}) /\ todo[u] # <<>>
    /\ up' = up \ {Head(todo[u])}
    /\ todo' = [todo EXCEPT ![u] = Tail(@)]
    /\ UNCHANGED <<spec, registered, began, doing, launching, appCalls, visitVars>>

Done(u) ==
    /\ Goes(u, {"start", "stop", "stop_all"}) /\ todo[u] = <<>> /\ launching[u] = NoApp
    /\ doing' = [doing EXCEPT ![u] = "idle"]
    /\ UNCHANGED <<spec, registered, up, began, todo, launching, appCalls, visitVars>>

Next ==
    \/ Leave \/ Resolved
    \/ \E a \in App : SkipVisited(a) \/ Visit(a) \/ VisitFails(a)
    \/ \E u \in User :
        \/ \E a \in App : Start(u, a) \/ Stop(u, a)
        \/ StopAll(u)
        \/ SkipRunning(u) \/ Launch(u) \/ Launched(u) \/ LaunchFails(u)
        \/ StopNext(u) \/ Done(u)

Spec == Init /\ [][Next]_vars

-----------------------------------------------------------------------------
(* No start function runs before those of all the application depends on   *)
(* have returned, whoever starts and stops at the same time: for every     *)
(* graph of dependencies the order puts them first, or there is an error.  *)
DependenciesFirst ==
    \A u \in User : launching[u] # NoApp => ToSet(spec[launching[u]]) \subseteq began

(* stop_all() reaches all that runs when it is called, each before what it *)
(* depends on.                                                             *)
StopAllReaches ==
    [][\A u \in User :
          resolver = u /\ resolver' = NoUser /\ doing[u] = "stop_all"
          => /\ up \subseteq ToSet(todo'[u])
             /\ \A i, j \in DOMAIN todo'[u] :
                   Contains(spec[todo'[u][i]], todo'[u][j]) => i < j]_vars
=============================================================================
