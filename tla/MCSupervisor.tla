---------------------------- MODULE MCSupervisor ----------------------------
(* Instances of Supervisor for TLC. *)
EXTENDS Supervisor

CONSTANTS db, cache, web

TwoChildren == <<db, cache>>
ThreeChildren == <<db, cache, web>>

OneTransient == [x \in Child |-> IF x = cache THEN "transient" ELSE "permanent"]
OneTemporary == [x \in Child |-> IF x = cache THEN "temporary" ELSE "permanent"]

OneInfinity == [x \in Child |-> IF x = cache THEN "infinity" ELSE "timeout"]
OneOfEach == [x \in Child |-> IF x = db THEN "infinity"
                              ELSE IF x = cache THEN "brutal_kill" ELSE "timeout"]
=============================================================================
