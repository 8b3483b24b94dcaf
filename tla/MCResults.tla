----------------------------- MODULE MCResults ------------------------------
(***************************************************************************)
(* What a model is sent and what its tools answer, in one run: Context,    *)
(* the tools on files, the bash tool, the ring buffer of a background      *)
(* task's output, and the reminder of tools that fail.  No two of these    *)
(* share a variable, so none helps or hinders a step of another: it is     *)
(* enough that one of them moves while the others are as they were made.   *)
(***************************************************************************)
EXTENDS MCFileTools, RingBuffer, BashTool, Reminder, Context

resultVars == <<vars, ringVars, bashVars, reminderVars, contextVars>>

ResultsInit == Init /\ RingInit /\ BashInit /\ NewInjector /\ ContextInit

(* Nobody has used the tools on files, and there are no files.             *)
FilesAtRest == Init /\ \A p \in Paths : files[p] = Absent

UseFiles ==
  /\ RingInit /\ BashInit /\ NewInjector /\ ContextInit
  /\ Next
  /\ UNCHANGED <<ringVars, bashVars, reminderVars, contextVars>>

UseRing ==
  /\ FilesAtRest /\ BashInit /\ NewInjector /\ ContextInit
  /\ RingNext
  /\ UNCHANGED <<vars, bashVars, reminderVars, contextVars>>

UseBash ==
  /\ FilesAtRest /\ RingInit /\ NewInjector /\ ContextInit
  /\ BashNext
  /\ UNCHANGED <<vars, ringVars, reminderVars, contextVars>>

UseReminder ==
  /\ FilesAtRest /\ RingInit /\ BashInit /\ ContextInit
  /\ ReminderNext
  /\ UNCHANGED <<vars, ringVars, bashVars, contextVars>>

UseContext ==
  /\ FilesAtRest /\ RingInit /\ BashInit /\ NewInjector
  /\ ContextNext
  /\ UNCHANGED <<vars, ringVars, bashVars, reminderVars>>

ResultsNext == UseFiles \/ UseRing \/ UseBash \/ UseReminder \/ UseContext

ResultsSpec == ResultsInit /\ [][ResultsNext]_resultVars /\ BashFairness

=============================================================================
