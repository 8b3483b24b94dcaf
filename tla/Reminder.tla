------------------------------ MODULE Reminder ------------------------------
(***************************************************************************)
(* The reminder injector: how often a failing tool call was repeated.      *)
(*                                                                         *)
(* One injector belongs to the engine and so to all runs of all chats, and *)
(* nothing guards its map.  A run calls CheckAndInject once per turn with  *)
(* the first tool call of the turn.  An increment of the map is a load and *)
(* a store; a success replaces the map, and an increment that has loaded   *)
(* from the old map stores into the old map.  Two runs inside the same map *)
(* at once are a data race, which the Go runtime may answer by ending the  *)
(* process ("concurrent map writes") or let pass.                          *)
(***************************************************************************)
EXTENDS Naturals

CONSTANTS
  Runs,       (* goroutines that execute AgentEngine.Run               *)
  Prints,     (* fingerprints of tool calls (MD5 collisions left aside)*)
  Threshold,  (* failures tolerated, 3 in the code                     *)
  MaxChecks,  (* bounds the turns of each run                          *)
  NoPrint

ASSUME ReminderAssumption ==
  /\ NoPrint \notin Prints
  /\ Threshold \in Nat
  /\ MaxChecks \in Nat

VARIABLES
  consecutiveFailures, (* the map, 0 for an absent key                 *)
  epoch,      (* how often it was replaced                             *)
  at,         (* where each run is in CheckAndInject                   *)
  print,      (* fingerprint of the call it was last called with       *)
  loaded,     (* what its increment loaded and from which map          *)
  nudge,      (* failCount in the reminder it returned, 0 for none     *)
  checks,     (* calls of CheckAndInject by each run                   *)
  since,      (* history: increments begun on the current map          *)
  own,        (* history: failures of each run since its last success  *)
  streak,     (* history: how many of its last checks in a row failed  *)
              (* with the fingerprint of the last one                  *)
  crashed     (* the runtime ended the process                         *)

historyVars == <<since, own, streak>>
reminderVars == <<consecutiveFailures, epoch, at, print, loaded, nudge, checks,
                  historyVars, crashed>>

Zero == [f \in Prints |-> 0]

NewInjector ==
  /\ consecutiveFailures = Zero
  /\ epoch = 0
  /\ at = [r \in Runs |-> "idle"]
  /\ print = [r \in Runs |-> NoPrint]
  /\ loaded = [r \in Runs |-> [epoch |-> 0, count |-> 0]]
  /\ nudge = [r \in Runs |-> 0]
  /\ checks = [r \in Runs |-> 0]
  /\ since = Zero
  /\ own = [r \in Runs |-> Zero]
  /\ streak = [r \in Runs |-> 0]
  /\ crashed = FALSE

-----------------------------------------------------------------------------
Called(r, f) ==
  /\ ~crashed
  /\ at[r] = "idle"
  /\ checks[r] < MaxChecks
  /\ checks' = [checks EXCEPT ![r] = @ + 1]
  /\ print' = [print EXCEPT ![r] = f]

(* Bug: the counters are cleared in place, for the map others hold.        *)
CallSucceededInPlace(r, f) ==
  /\ Called(r, f)
  /\ consecutiveFailures' = Zero
  /\ since' = Zero
  /\ own' = [own EXCEPT ![r] = Zero]
  /\ streak' = [streak EXCEPT ![r] = 0]
  /\ nudge' = [nudge EXCEPT ![r] = 0]
  /\ UNCHANGED <<epoch, at, loaded, crashed>>

(* The call succeeded: a new map, whatever the others are doing.           *)
CallSucceeded(r, f) ==
  /\ Called(r, f)
  /\ consecutiveFailures' = Zero
  /\ epoch' = epoch + 1
  /\ since' = Zero
  /\ own' = [own EXCEPT ![r] = Zero]
  /\ streak' = [streak EXCEPT ![r] = 0]
  /\ nudge' = [nudge EXCEPT ![r] = 0]
  /\ UNCHANGED <<at, loaded, crashed>>

(* The call failed: its counter is to be incremented.                      *)
CallFailed(r, f) ==
  /\ Called(r, f)
  /\ at' = [at EXCEPT ![r] = "load"]
  /\ own' = [own EXCEPT ![r][f] = @ + 1]
  /\ streak' = [streak EXCEPT ![r] = IF print[r] = f THEN @ + 1 ELSE 1]
  /\ nudge' = [nudge EXCEPT ![r] = 0]
  /\ UNCHANGED <<consecutiveFailures, epoch, loaded, since, crashed>>

Load(r) ==
  /\ ~crashed
  /\ at[r] = "load"
  /\ loaded' = [loaded EXCEPT ![r] =
                  [epoch |-> epoch, count |-> consecutiveFailures[print[r]]]]
  /\ since' = [since EXCEPT ![print[r]] = @ + 1]
  /\ at' = [at EXCEPT ![r] = "store"]
  /\ UNCHANGED <<consecutiveFailures, epoch, print, nudge, checks, own, streak,
                 crashed>>

(* A store into a map that was replaced in between is lost.                *)
Store(r) ==
  /\ ~crashed
  /\ at[r] = "store"
  /\ consecutiveFailures' =
       IF loaded[r].epoch = epoch
         THEN [consecutiveFailures EXCEPT ![print[r]] = loaded[r].count + 1]
         ELSE consecutiveFailures
  /\ at' = [at EXCEPT ![r] = "judge"]
  /\ UNCHANGED <<epoch, print, loaded, nudge, checks, historyVars, crashed>>

(* Bug: the reminder comes one failure early.                              *)
JudgeEarly(r) ==
  LET failCount == consecutiveFailures[print[r]] IN
  /\ ~crashed /\ at[r] = "judge"
  /\ nudge' = [nudge EXCEPT ![r] = IF failCount >= Threshold THEN failCount ELSE 0]
  /\ at' = [at EXCEPT ![r] = "idle"]
  /\ UNCHANGED <<consecutiveFailures, epoch, print, loaded, checks, historyVars,
                 crashed>>

(* The count is read again and compared with the threshold.                *)
Judge(r) ==
  LET failCount == consecutiveFailures[print[r]] IN
  /\ ~crashed
  /\ at[r] = "judge"
  /\ nudge' = [nudge EXCEPT ![r] = IF failCount > Threshold THEN failCount ELSE 0]
  /\ at' = [at EXCEPT ![r] = "idle"]
  /\ UNCHANGED <<consecutiveFailures, epoch, print, loaded, checks, historyVars,
                 crashed>>

(* A run is inside the map while another assigns, and the runtime notices. *)
RaceDetected ==
  /\ ~crashed
  /\ \E q, r \in Runs : q # r /\ at[q] = "load" /\ at[r] \in {"load", "judge"}
  /\ crashed' = TRUE
  /\ UNCHANGED <<consecutiveFailures, epoch, at, print, loaded, nudge, checks,
                 historyVars>>

ReminderNext ==
  \/ \E r \in Runs, f \in Prints : CallSucceeded(r, f) \/ CallFailed(r, f)
  \/ \E r \in Runs : Load(r) \/ Store(r) \/ Judge(r)
  \/ RaceDetected

ReminderSpec == NewInjector /\ [][ReminderNext]_reminderVars

-----------------------------------------------------------------------------
(* Types; an increment under way is of a known fingerprint and was loaded  *)
(* from this map or an earlier one.                                        *)
ReminderTypeOK ==
  /\ consecutiveFailures \in [Prints -> Nat]
  /\ epoch \in Nat
  /\ at \in [Runs -> {"idle", "load", "store", "judge"}]
  /\ print \in [Runs -> Prints \cup {NoPrint}]
  /\ loaded \in [Runs -> [epoch : 0..epoch, count : Nat]]
  /\ nudge \in [Runs -> Nat]
  /\ checks \in [Runs -> 0..MaxChecks]
  /\ since \in [Prints -> Nat]
  /\ own \in [Runs -> [Prints -> Nat]]
  /\ streak \in [Runs -> Nat]
  /\ crashed \in BOOLEAN
  /\ \A r \in Runs : at[r] # "idle" => print[r] \in Prints

(* However runs race, no count exceeds the failures since the last success *)
(* of anyone: lost updates make reminders late, never early.               *)
NoPhantomFailures == \A f \in Prints : consecutiveFailures[f] <= since[f]

(* While one run uses the engine, more than Threshold failures of one call *)
(* in a row never pass without a reminder.  If all failures since the last *)
(* success are of that call, the reminder comes exactly then and names the *)
(* length of the row.                                                      *)
NudgeExact ==
  \A r \in Runs :
    /\ \A q \in Runs \ {r} : checks[q] = 0
    /\ at[r] = "idle" /\ streak[r] > 0
    => /\ streak[r] > Threshold => nudge[r] # 0
       /\ (\A g \in Prints \ {print[r]} : own[r][g] = 0) =>
            nudge[r] = IF streak[r] > Threshold THEN streak[r] ELSE 0

-----------------------------------------------------------------------------
(* "When the same fingerprint fails more than 3 times consecutively"       *)
(* (reminder.go:34): the number a reminder names is that of failures in a  *)
(* row.                                                                    *)
NudgeSaysConsecutive ==
  \A r \in Runs : at[r] = "idle" /\ nudge[r] # 0 => nudge[r] = streak[r]

=============================================================================
