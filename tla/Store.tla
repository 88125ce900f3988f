--------------------------------- MODULE Store ---------------------------------
(***************************************************************************)
(* store/{mod,registry}.rs: concurrent tables that belong to a process,    *)
(* and the global registry of their owners, names and heirs.               *)
(*                                                                         *)
(* A table is a Store over a DashMap or an OrderedStore under one lock.    *)
(* Its content is one number, which an update increases by one and any     *)
(* other write replaces: what the properties tell apart.                   *)
(***************************************************************************)
EXTENDS Naturals

CONSTANTS
    Owner,          \* processes
    Table,          \* tables that may be created
    MaxStoreCalls   \* bound: calls

Nobody == "nobody"
NoTable == "no_table"

VARIABLES
    kind,       \* "store" or "ordered"; "none" before the table is made
    private,    \* access is Private
    maker,      \* inner.owner: who made the table
    named,      \* the table was created under the name
    meta,       \* the owner that the registry knows, Nobody when unregistered
    heir,
    names,      \* the table registered under the name
    byOwner,
    content, writes, \* the number in the table, and history: what it should be
    updating,   \* the table a process updates and the number it has read
    alive,
    cleaning,   \* tables that the cleanup of an exited process has yet to visit
    leaving,    \* the table that the cleanup has taken out, its name still there
    inherited,  \* StoreInherited messages sent to each process
    storeCalls

tableVars == <<kind, private, maker, named>>
registry == <<meta, heir, names, byOwner>>
data == <<content, writes, updating>>
vars == <<tableVars, registry, data, alive, cleaning, leaving, inherited, storeCalls>>

TypeOK ==
    /\ kind \in [Table -> {"none", "store", "ordered"}]
    /\ private \in [Table -> BOOLEAN] /\ named \in [Table -> BOOLEAN]
    /\ \A f \in {maker, meta, heir} : f \in [Table -> Owner \cup {Nobody}]
    /\ names \in Table \cup {NoTable}
    /\ byOwner \in [Owner -> SUBSET Table] /\ inherited \in [Owner -> SUBSET Table]
    /\ content \in [Table -> Nat] /\ writes \in [Table -> Nat]
    /\ updating \in [Owner -> [table : Table \cup {NoTable}, seen : Nat]]
    /\ alive \subseteq Owner
    /\ cleaning \in [Owner -> SUBSET Table] /\ leaving \in [Owner -> [table : Table \cup {NoTable}, of : Owner \cup {Nobody}]]
    /\ storeCalls \in Nat

Quiet == [table |-> NoTable, seen |-> 0]
None == [table |-> NoTable, of |-> Nobody]

Init ==
    /\ kind = [t \in Table |-> "none"]
    /\ private = [t \in Table |-> FALSE] /\ named = private
    /\ maker = [t \in Table |-> Nobody] /\ meta = maker /\ heir = maker
    /\ names = NoTable
    /\ byOwner = [p \in Owner |-> {}] /\ inherited = byOwner /\ cleaning = byOwner
    /\ content = [t \in Table |-> 0] /\ writes = content
    /\ updating = [p \in Owner |-> Quiet] /\ leaving = [p \in Owner |-> None]
    /\ alive = Owner /\ storeCalls = 0

Calls(p) ==
    /\ p \in alive /\ updating[p] = Quiet
    /\ storeCalls < MaxStoreCalls
    /\ storeCalls' = storeCalls + 1

-----------------------------------------------------------------------------
(* new(), with_options() and register_store(): a name that is taken is     *)
(* simply taken over.  (An owner that is its own heir has none.)           *)
Create(p, t) ==
    /\ Calls(p)
    /\ kind[t] = "none"
    /\ \E k \in {"store", "ordered"}, b \in BOOLEAN, n \in BOOLEAN, h \in (Owner \ {p}) \cup {Nobody} :
          /\ kind' = [kind EXCEPT ![t] = k]
          /\ private' = [private EXCEPT ![t] = b]
          /\ named' = [named EXCEPT ![t] = n]
          /\ heir' = [heir EXCEPT ![t] = h]
          /\ names' = IF n THEN t ELSE names
    /\ maker' = [maker EXCEPT ![t] = p]
    /\ meta' = [meta EXCEPT ![t] = p]
    /\ byOwner' = [byOwner EXCEPT ![p] = @ \cup {t}]
    /\ UNCHANGED <<data, alive, cleaning, leaving, inherited>>

(* check_access: a table is never marked deleted, and a private one is for *)
(* who made it, whoever owns it now.                                       *)
Access(p, t) == kind[t] # "none" /\ (private[t] => p = maker[t])

(* insert, remove, insert_many, get_or_insert, clear, retain, pop_first    *)
(* and pop_last: one access each.                                          *)
Write(p, t) ==
    /\ Calls(p) /\ Access(p, t)
    /\ content' = [content EXCEPT ![t] = 0]
    /\ writes' = [writes EXCEPT ![t] = 0]
    /\ UNCHANGED <<tableVars, registry, updating, alive, cleaning, leaving, inherited>>

(* Store::update reads, lets go of the shard, and inserts. *)
BeginUpdate(p, t) ==
    /\ Calls(p) /\ Access(p, t) /\ kind[t] = "store"
    /\ updating' = [updating EXCEPT ![p] = [table |-> t, seen |-> content[t]]]
    /\ UNCHANGED <<tableVars, registry, content, writes, alive, cleaning, leaving, inherited>>

EndUpdate(p) ==
    /\ updating[p] # Quiet
    /\ LET t == updating[p].table
       IN /\ content' = [content EXCEPT ![t] = updating[p].seen + 1]
          /\ writes' = [writes EXCEPT ![t] = @ + 1]
    /\ updating' = [updating EXCEPT ![p] = Quiet]
    /\ UNCHANGED <<tableVars, registry, alive, cleaning, leaving, inherited, storeCalls>>

(* Mutant of UpdateOrdered: the lock is taken for the read only. *)
UpdateUnlocked(p, t) ==
    /\ Calls(p) /\ Access(p, t) /\ kind[t] = "ordered"
    /\ updating' = [updating EXCEPT ![p] = [table |-> t, seen |-> content[t]]]
    /\ UNCHANGED <<tableVars, registry, content, writes, alive, cleaning, leaving, inherited>>

(* OrderedStore::update holds the write lock for all of it. *)
UpdateOrdered(p, t) ==
    /\ Calls(p) /\ Access(p, t) /\ kind[t] = "ordered"
    /\ content' = [content EXCEPT ![t] = @ + 1]
    /\ writes' = [writes EXCEPT ![t] = @ + 1]
    /\ UNCHANGED <<tableVars, registry, updating, alive, cleaning, leaving, inherited>>

(* transfer_ownership(): the owner that is known to give is who made the   *)
(* table, also when the table has passed on since.                         *)
Transferred(t, old, new) ==
    [byOwner EXCEPT ![old] = IF old = new THEN @ ELSE @ \ {t}, ![new] = @ \cup {t}]

GiveAway(p, t, q) ==
    /\ Calls(p) /\ kind[t] # "none" /\ p = maker[t]
    /\ meta' = IF meta[t] = Nobody THEN meta ELSE [meta EXCEPT ![t] = q]
    /\ byOwner' = Transferred(t, p, q)
    /\ UNCHANGED <<tableVars, heir, names, data, alive, cleaning, leaving, inherited>>

-----------------------------------------------------------------------------
(* cleanup_owned_stores(): called when the exit of a process is handled,   *)
(* with the tables the process owns by then.                               *)
Exit(p) ==
    /\ p \in alive
    /\ alive' = alive \ {p}
    /\ updating' = [updating EXCEPT ![p] = Quiet]
    /\ cleaning' = [cleaning EXCEPT ![p] = byOwner[p]]
    /\ UNCHANGED <<tableVars, registry, content, writes, leaving, inherited, storeCalls>>

Inherit(p, t) ==
    /\ leaving[p] = None /\ t \in cleaning[p]
    /\ meta[t] # Nobody /\ heir[t] \in alive
    /\ cleaning' = [cleaning EXCEPT ![p] = @ \ {t}]
    /\ meta' = [meta EXCEPT ![t] = heir[t]]
    /\ byOwner' = Transferred(t, p, heir[t])
    /\ inherited' = [inherited EXCEPT ![heir[t]] = @ \cup {t}]
    /\ UNCHANGED <<tableVars, heir, names, data, alive, leaving, storeCalls>>

(* unregister_store(): the name goes, whichever table it leads to by now. *)
UnregisterName(t) == IF named[t] THEN NoTable ELSE names

Unregister(p, t) ==
    /\ leaving[p] = None /\ t \in cleaning[p]
    /\ meta[t] = Nobody \/ heir[t] \notin alive
    /\ cleaning' = [cleaning EXCEPT ![p] = @ \ {t}]
    /\ \/ meta[t] = Nobody /\ UNCHANGED <<registry, leaving>>
       \/ /\ meta[t] # Nobody
          /\ meta' = [meta EXCEPT ![t] = Nobody]
          /\ leaving' = [leaving EXCEPT ![p] = [table |-> t, of |-> meta[t]]]
          /\ UNCHANGED <<heir, names, byOwner>>
    /\ UNCHANGED <<tableVars, data, alive, inherited, storeCalls>>

LoseName(p) ==
    /\ leaving[p] # None
    /\ names' = UnregisterName(leaving[p].table)
    /\ byOwner' = [byOwner EXCEPT ![leaving[p].of] = @ \ {leaving[p].table}]
    /\ leaving' = [leaving EXCEPT ![p] = None]
    /\ UNCHANGED <<tableVars, meta, heir, data, alive, cleaning, inherited, storeCalls>>

(* The owner's entry goes last. *)
DropOwner(p) ==
    /\ p \notin alive /\ cleaning[p] = {} /\ leaving[p] = None /\ byOwner[p] # {}
    /\ byOwner' = [byOwner EXCEPT ![p] = {}]
    /\ UNCHANGED <<tableVars, meta, heir, names, data, alive, cleaning, leaving, inherited, storeCalls>>

Next ==
    \E p \in Owner :
        \/ EndUpdate(p) \/ Exit(p) \/ DropOwner(p) \/ LoseName(p)
        \/ \E t \in Table :
              \/ Create(p, t) \/ Write(p, t)
              \/ BeginUpdate(p, t) \/ UpdateOrdered(p, t)
              \/ \E q \in Owner : GiveAway(p, t, q)
              \/ Inherit(p, t) \/ Unregister(p, t)

Spec == Init /\ [][Next]_vars

-----------------------------------------------------------------------------
(* No update of an OrderedStore is lost, whoever updates at the same time. *)
OrderedUpdates ==
    \A t \in Table : kind[t] = "ordered" => content[t] = writes[t]

(* The name leads to a registered table, or to one that a cleanup is about *)
(* to take it from, though tables take it over from each other and their   *)
(* owners end in any order.                                                *)
NameRegistered ==
    names # NoTable =>
        meta[names] # Nobody \/ names \in {leaving[p].table : p \in Owner}

=============================================================================
