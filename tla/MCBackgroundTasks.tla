-------------------------- MODULE MCBackgroundTasks -------------------------
(***************************************************************************)
(* Small instances of BackgroundTasks for TLC.                             *)
(***************************************************************************)
EXTENDS BackgroundTasks

(* An ordinary server that forks a worker.                                 *)
PlainServer ==
  {[trap |-> FALSE, stubborn |-> FALSE, grouped |-> TRUE, holds |-> TRUE]}

(* A worker that ignores SIGTERM and has redirected its output.            *)
StubbornWorker ==
  {[trap |-> FALSE, stubborn |-> TRUE, grouped |-> TRUE, holds |-> FALSE]}

(* A server that ignores SIGTERM, as its worker does.                      *)
TrappingServer ==
  {[trap |-> TRUE, stubborn |-> TRUE, grouped |-> TRUE, holds |-> TRUE]}

(* A worker that leaves the group and keeps the pipe.                      *)
Escape ==
  {[trap |-> FALSE, stubborn |-> FALSE, grouped |-> FALSE, holds |-> TRUE]}

Hardest == TrappingServer \cup Escape

=============================================================================
