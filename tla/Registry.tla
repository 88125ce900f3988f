-------------------------------- MODULE Registry --------------------------------
(***************************************************************************)
(* registry.rs: a keyed process registry, unique or duplicate, used by     *)
(* several threads at once.  Each process works on its own registrations,  *)
(* one call at a time.  A unique registry that serves servers through the  *)
(* via adapter sees one register_name() and one unregister_name() of each. *)
(* Every access to one of the two concurrent maps is a step of its own.    *)
(***************************************************************************)
EXTENDS Naturals

CONSTANTS
    Key, Process,
    MaxRegCalls   \* bound: calls

NoKey == "no_key"
Mode == {"unique", "duplicate", "via"}

VARIABLES
    mode,      \* registry_type, and whether servers use it by the via adapter
    present,   \* the keys of `entries`
    entries,   \* the processes registered under each key
    keysOf,    \* pid_to_keys
    running,   \* processes that are alive
    at,        \* what each process does, and to which key and process
    regCalls,
    named      \* the key each server has registered through the adapter

vars == <<mode, present, entries, keysOf, running, at, regCalls, named>>

Idle == [do |-> "idle", key |-> NoKey, of |-> NoKey, rest |-> {}]
Doing == {"idle", "insert", "reverse", "retain", "remove", "forget"}

TypeOK ==
    /\ mode \in Mode /\ named \in [Process -> Key \cup {NoKey}]
    /\ present \subseteq Key /\ running \subseteq Process
    /\ entries \in [Key -> SUBSET Process] /\ keysOf \in [Process -> SUBSET Key]
    /\ at \in [Process -> [do : Doing, key : Key \cup {NoKey},
                           of : Process \cup {NoKey}, rest : SUBSET Key]]
    /\ regCalls \in Nat

Init ==
    /\ mode \in Mode /\ named = [p \in Process |-> NoKey]
    /\ present = {} /\ entries = [k \in Key |-> {}]
    /\ keysOf = [p \in Process |-> {}]
    /\ running = Process
    /\ at = [p \in Process |-> Idle]
    /\ regCalls = 0

Goes(p, do, k, of, rest) ==
    at' = [at EXCEPT ![p] = [do |-> do, key |-> k, of |-> of, rest |-> rest]]

Calls(p) ==
    /\ p \in running /\ at[p] = Idle
    /\ regCalls < MaxRegCalls
    /\ regCalls' = regCalls + 1

(* register() of a unique registry: contains_key, then insert. *)
RegisterUnique(p, k) ==
    /\ Calls(p) /\ mode # "duplicate" /\ k \notin keysOf[p] /\ named[p] = NoKey
    /\ named' = IF mode = "via" /\ k \notin present THEN [named EXCEPT ![p] = k] ELSE named
    /\ IF k \in present THEN UNCHANGED at
       ELSE Goes(p, "insert", k, p, {})
    /\ UNCHANGED <<mode, present, entries, keysOf, running>>

Insert(p) ==
    /\ at[p].do = "insert"
    /\ present' = present \cup {at[p].key}
    /\ entries' = [entries EXCEPT ![at[p].key] = {p}]
    /\ Goes(p, "reverse", at[p].key, p, {})
    /\ UNCHANGED <<mode, keysOf, running, regCalls, named>>

(* register() of a duplicate registry. *)
RegisterDuplicate(p, k) ==
    /\ Calls(p) /\ mode = "duplicate" /\ k \notin keysOf[p]
    /\ present' = present \cup {k}
    /\ entries' = [entries EXCEPT ![k] = @ \cup {p}]
    /\ Goes(p, "reverse", k, p, {})
    /\ UNCHANGED <<mode, keysOf, running, named>>

(* The reverse mapping comes last. *)
TrackKey(p) ==
    /\ at[p].do = "reverse"
    /\ keysOf' = [keysOf EXCEPT ![p] = @ \cup {at[p].key}]
    /\ Goes(p, "idle", NoKey, NoKey, {})
    /\ UNCHANGED <<mode, present, entries, running, regCalls, named>>

(* unregister(), unregister_all(), and unregister_name() of a via adapter, *)
(* which looks up whom to unregister.                                      *)
Unregister(p, k) ==
    /\ Calls(p) /\ mode # "via" /\ k \in keysOf[p]
    /\ Goes(p, "retain", k, p, {})
    /\ UNCHANGED <<mode, present, entries, keysOf, running, named>>

UnregisterAll(p) ==
    /\ Calls(p) /\ mode # "via"
    /\ \E k \in keysOf[p] : Goes(p, "retain", k, p, keysOf[p] \ {k})
    /\ keysOf' = [keysOf EXCEPT ![p] = {}]
    /\ UNCHANGED <<mode, present, entries, running, named>>

UnregisterVia(p, k) ==
    /\ Calls(p) /\ mode = "via" /\ named[p] = k
    /\ \E q \in entries[k] : Goes(p, "retain", k, q, {})
    /\ running' = running \ {p}
    /\ UNCHANGED <<mode, present, entries, keysOf, named>>

(* Mutant of Retain: the lock is taken only when it is free, so that the   *)
(* entry may stay.                                                         *)
RetainTry(p) ==
    LET k == at[p].key
        left == entries[k] \ {at[p].of}
    IN /\ at[p].do = "retain"
       /\ entries' \in {entries, [entries EXCEPT ![k] = left]}
       /\ Goes(p, IF entries'[k] = {} THEN "remove" ELSE "forget", k, at[p].of, at[p].rest)
       /\ UNCHANGED <<mode, present, keysOf, running, regCalls, named>>

(* retain() under the lock of the key.  When nothing is left the lock is   *)
(* given up and the key removed, with whatever has come in between.        *)
Retain(p) ==
    LET k == at[p].key
        left == entries[k] \ {at[p].of}
    IN /\ at[p].do = "retain"
       /\ entries' = [entries EXCEPT ![k] = left]
       /\ Goes(p, IF k \in present /\ left = {} THEN "remove" ELSE "forget", k, at[p].of, at[p].rest)
       /\ UNCHANGED <<mode, present, keysOf, running, regCalls, named>>

RemoveKey(p) ==
    /\ at[p].do = "remove"
    /\ present' = present \ {at[p].key}
    /\ entries' = [entries EXCEPT ![at[p].key] = {}]
    /\ Goes(p, "forget", at[p].key, at[p].of, at[p].rest)
    /\ UNCHANGED <<mode, keysOf, running, regCalls, named>>

(* The reverse mapping; unregister_all() goes on with its next key.        *)
Forget(p) ==
    /\ at[p].do = "forget"
    /\ keysOf' = [keysOf EXCEPT ![at[p].of] = @ \ {at[p].key}]
    /\ \/ at[p].rest = {} /\ Goes(p, "idle", NoKey, NoKey, {})
       \/ \E k \in at[p].rest : Goes(p, "retain", k, p, at[p].rest \ {k})
    /\ UNCHANGED <<mode, present, entries, running, regCalls, named>>

(* A process ends.  Nothing in the registry follows from it. *)
Exit(p) ==
    /\ p \in running /\ at[p] = Idle
    /\ running' = running \ {p}
    /\ UNCHANGED <<mode, present, entries, keysOf, at, regCalls, named>>

Next ==
    \E p \in Process :
        \/ Insert(p) \/ TrackKey(p) \/ Retain(p) \/ RemoveKey(p) \/ Forget(p)
        \/ UnregisterAll(p) \/ Exit(p)
        \/ \E k \in Key :
              \/ RegisterUnique(p, k) \/ RegisterDuplicate(p, k)
              \/ Unregister(p, k) \/ UnregisterVia(p, k)

Spec == Init /\ [][Next]_vars

-----------------------------------------------------------------------------
(* Who has an entry is in the reverse mapping, from which unregister_all() *)
(* finds what to remove: between two calls of a process none of its        *)
(* entries is out of reach.                                                *)
ReverseCovers ==
    \A p \in Process, k \in Key :
        p \in entries[k] =>
            \/ k \in keysOf[p]
            \/ at[p].do = "reverse" /\ at[p].key = k
            \/ at[p].do = "retain" /\ k \in {at[p].key} \cup at[p].rest
            \/ at[p].do \in {"remove", "forget"} /\ k \in at[p].rest

=============================================================================
