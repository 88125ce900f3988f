-------------------------- MODULE MCProcessRuntime --------------------------
(***************************************************************************)
(* Constants of ProcessRuntime for TLC: the calls user code may make.      *)
(***************************************************************************)
EXTENDS ProcessRuntime

SafetyCalls == CallNames \ {"register_other"}
LinkCalls == {"spawn_link", "link", "monitor", "trap_exit", "exit"}
=============================================================================
