------------------------------ MODULE RemoteCall ------------------------------
(***************************************************************************)
(* What a synchronous call promises its caller, whoever serves it: it      *)
(* returns at most once, with Ok only once it was answered, and who gave   *)
(* up hears nothing of it any more.                                        *)
(***************************************************************************)
CONSTANT Call

VARIABLES
    outcome,  \* what each call has come to at the caller
    served    \* the calls the server has answered

vars == <<outcome, served>>

TypeOK ==
    /\ outcome \in [Call -> {"idle", "pending", "answered", "timeout"}]
    /\ served \subseteq Call

Init ==
    /\ outcome = [c \in Call |-> "idle"]
    /\ served = {}

Step(c, before, after) ==
    /\ outcome[c] = before
    /\ outcome' = [outcome EXCEPT ![c] = after]
    /\ UNCHANGED served

Issue(c) == Step(c, "idle", "pending")

(* A call may be served after its caller has given up. *)
Serve(c) ==
    /\ c \notin served /\ outcome[c] # "idle"
    /\ served' = served \cup {c}
    /\ UNCHANGED outcome

Return(c) == c \in served /\ Step(c, "pending", "answered")

GiveUp(c) == Step(c, "pending", "timeout")

Next == \E c \in Call : Issue(c) \/ Serve(c) \/ Return(c) \/ GiveUp(c)

Spec == Init /\ [][Next]_vars
=============================================================================
