---------------------------- MODULE MCProcesses -----------------------------
(***************************************************************************)
(* The other processes of an agent, in one run: the MCP servers it starts  *)
(* with, and its prompt, and the background tasks it starts.  The two      *)
(* share no variable, so neither helps or hinders a step of the other: it  *)
(* is enough that one moves while the other is as it was made.             *)
(***************************************************************************)
EXTENDS MCStartup, MCBackgroundTasks

ProcessesInit == StartupInit /\ ManagerInit

(* There is no mcp.json and nothing was done about it.                     *)
StartupAtRest == StartupInit /\ mode = "telegram" /\ Configured = {}

StartUp ==
  /\ ManagerInit
  /\ StartupNext
  /\ UNCHANGED managerVars

UseTasks ==
  /\ StartupAtRest
  /\ ManagerNext
  /\ UNCHANGED startupVars

ProcessesSpec ==
  ProcessesInit /\ [][StartUp \/ UseTasks]_<<startupVars, managerVars>> /\ Fairness

=============================================================================
