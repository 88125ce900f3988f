------------------------------ MODULE MCPresence ------------------------------
(* Instances of Presence for model checking. *)
EXTENDS Presence, TLC

CONSTANTS n1, n2, n3, alice, bob

(* The two nodes that are there from the start are interchangeable, as the *)
(* behaviour of a node does not depend on its name.                        *)
Interchangeable == Permutations({n1, n2})

=============================================================================
