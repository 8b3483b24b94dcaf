------------------------------ MODULE BashTool -------------------------------
(***************************************************************************)
(* One call of the bash tool: bash, a process it may leave behind, the     *)
(* pipe both write to, and os/exec, which reaps bash, kills it when the    *)
(* context is done and copies the pipe until nobody holds its write end.   *)
(*                                                                         *)
(* The context is done when its 30 seconds are over or the caller's is     *)
(* cancelled.  Its watcher in os/exec kills bash alone, and rests once     *)
(* bash is reaped.  A zombie can still be signalled, so the context may be *)
(* reported as the cause although bash had ended by itself.                *)
(*                                                                         *)
(* Output is counted and not spelt out; text that is too long differs from *)
(* text that is not by being longer than maxLen.                           *)
(***************************************************************************)
EXTENDS Integers

CONSTANTS
  maxLen,     (* what the model is shown of a success, 8000 bytes          *)
  MaxOutput   (* bounds what the command writes                            *)

ASSUME BashAssumption == maxLen \in Nat \ {0} /\ MaxOutput \in Nat

VARIABLES
  call,      (* where Execute is                                           *)
  bash,      (* the process of bash, and its exit status                   *)
  child,     (* a process it forked, with the pipe or with another output  *)
  ctx,       (* the context: alive, done, or no longer watched             *)
  blamed,    (* whether the watcher killed bash for the context's sake     *)
  written,   (* what the command wrote to the pipe                         *)
  copied,    (* what has been read from it                                 *)
  result     (* what the model is shown: how, and how much of the output   *)

bashVars == <<call, bash, child, ctx, blamed, written, copied, result>>

NoResult == [how |-> "none", shown |-> 0]

BashInit ==
  /\ call = "idle"
  /\ bash = [state |-> "none", status |-> "none"]
  /\ child = "none"
  /\ ctx = "alive"
  /\ blamed = FALSE
  /\ written = 0 /\ copied = 0
  /\ result = NoResult

Alive == bash.state = "alive"

PipeHeld == Alive \/ child = "holds"

-----------------------------------------------------------------------------
(* The command, of which nothing is assumed.                               *)

BashWrites ==
  /\ call = "runs" /\ PipeHeld
  /\ written < MaxOutput
  /\ written' = written + 1
  /\ UNCHANGED <<call, bash, child, ctx, blamed, copied, result>>

BashForks ==
  /\ Alive /\ child = "none"
  /\ child' \in {"holds", "redirected"}
  /\ UNCHANGED <<call, bash, ctx, blamed, written, copied, result>>

BashExits ==
  /\ Alive
  /\ \E code \in {"zero", "other"} : bash' = [state |-> "zombie", status |-> code]
  /\ UNCHANGED <<call, child, ctx, blamed, written, copied, result>>

ChildEnds ==
  /\ child \in {"holds", "redirected"}
  /\ child' = "gone"
  /\ UNCHANGED <<call, bash, ctx, blamed, written, copied, result>>

-----------------------------------------------------------------------------
(* Arguments that are no JSON are the one error the registry will see.     *)
ParseFails ==
  /\ call = "idle"
  /\ call' = "returned"
  /\ result' = [how |-> "error", shown |-> 0]
  /\ UNCHANGED <<bash, child, ctx, blamed, written, copied>>

StartBash ==
  /\ call = "idle"
  /\ call' = "runs"
  /\ bash' = [state |-> "alive", status |-> "none"]
  /\ UNCHANGED <<child, ctx, blamed, written, copied, result>>

(* There is no bash, or the context was done before.                       *)
StartFails ==
  /\ call = "idle"
  /\ call' = "returned"
  /\ result' = [how |-> "failure", shown |-> 0]
  /\ UNCHANGED <<bash, child, ctx, blamed, written, copied>>

(* Bug: exec.Command instead of exec.CommandContext.                       *)
ContextIgnored ==
  /\ call = "runs" /\ ctx = "alive"
  /\ ctx' = "done"
  /\ UNCHANGED <<call, bash, child, blamed, written, copied, result>>

(* The time is up or the run is cancelled: the watcher kills bash, unless  *)
(* it is reaped already.                                                   *)
ContextDone ==
  /\ call = "runs" /\ ctx = "alive"
  /\ ctx' = "done"
  /\ blamed' = (bash.state # "reaped")
  /\ bash' = IF Alive THEN [state |-> "zombie", status |-> "killed"] ELSE bash
  /\ UNCHANGED <<call, child, written, copied, result>>

(* Process.Wait returns; then the watcher, if it has nothing to say, rests. *)
Reap ==
  /\ bash.state = "zombie"
  /\ bash' = [bash EXCEPT !.state = "reaped"]
  /\ UNCHANGED <<call, child, ctx, blamed, written, copied, result>>

WatcherRests ==
  /\ bash.state = "reaped" /\ ctx = "alive"
  /\ ctx' = "unwatched"
  /\ UNCHANGED <<call, bash, child, blamed, written, copied, result>>

CopyOutput ==
  /\ call = "runs" /\ copied < written
  /\ copied' = written
  /\ UNCHANGED <<call, bash, child, ctx, blamed, written, result>>

(* The pipe is at its end.                                                 *)
EndOfFile == ~PipeHeld /\ copied = written

Failed == bash.status # "zero" \/ blamed

(* What Execute makes of CombinedOutput's error and of n bytes of output:  *)
(* only a success is truncated.                                            *)
Shown(n) ==
  IF Failed THEN [how |-> "failure", shown |-> n]
  ELSE IF n = 0 THEN [how |-> "nothing", shown |-> 0]
  ELSE IF n > maxLen THEN [how |-> "truncated", shown |-> maxLen]
  ELSE [how |-> "output", shown |-> n]

(* Bug: CombinedOutput does not wait for the copying.                      *)
ReturnEarly ==
  /\ call = "runs" /\ bash.state = "reaped" /\ ctx # "alive"
  /\ call' = "returned"
  /\ result' = Shown(copied)
  /\ UNCHANGED <<bash, child, ctx, blamed, written, copied>>

Return ==
  /\ call = "runs" /\ bash.state = "reaped" /\ ctx # "alive"
  /\ EndOfFile
  /\ call' = "returned"
  /\ result' = Shown(copied)
  /\ UNCHANGED <<bash, child, ctx, blamed, written, copied>>

ToolSteps == Reap \/ WatcherRests \/ CopyOutput \/ Return

BashNext ==
  \/ ParseFails \/ StartBash \/ StartFails
  \/ BashWrites \/ BashForks \/ BashExits \/ ChildEnds
  \/ ContextDone \/ ToolSteps

BashSpec == BashInit /\ [][BashNext]_bashVars

(* Time passes, the kernel kills what it is told to, and goroutines run.   *)
BashFairness ==
  /\ WF_bashVars(ContextDone)
  /\ WF_bashVars(Reap) /\ WF_bashVars(WatcherRests)
  /\ WF_bashVars(CopyOutput) /\ WF_bashVars(Return)

-----------------------------------------------------------------------------
(* "give bash a maxium executing time" (bash.go:56).  A call returns,      *)
(* whatever the command does, unless a process that bash left behind holds *)
(* the pipe again and again, or for ever: that one nobody kills.           *)
BudgetKept == (call = "runs" ~> call = "returned") \/ []<>(child = "holds")

(* What the model is told is true.  Nothing that was written is missing    *)
(* from a failure, and nothing but the rest of a long output from a        *)
(* success; a success is one of bash and not just of the time it took, and *)
(* a command that ended well in time is not reported as a failure.         *)
ReportTrue ==
  LET all == written IN
  call = "returned" /\ bash.state # "none" =>
    /\ result.shown = IF result.how = "truncated" THEN maxLen ELSE all
    /\ result.how = "truncated" => all > maxLen
    /\ result.how \in {"nothing", "output"} => all <= maxLen
    /\ result.how # "failure" => bash.status = "zero"
    /\ result.how = "failure" => bash.status # "zero" \/ ctx = "done"

=============================================================================
