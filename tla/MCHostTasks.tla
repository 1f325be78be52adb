----------------------------- MODULE MCHostTasks -----------------------------
(* Small instances of HostTasks: two hosts that may answer the same task. *)
EXTENDS HostTasks
=============================================================================
