------------------------------ MODULE Approval ------------------------------
(***************************************************************************)
(* Human approval of dangerous tool calls.                                 *)
(*                                                                         *)
(* A tool call runs in a goroutine of its own.  The registry routes it,    *)
(* the middleware mounted by cmd/agent/main.go classifies it, and a        *)
(* dangerous one is suspended in ApprovalManager.WaitForApproval until a   *)
(* human replies in the chat, the timeout fires or its context is          *)
(* cancelled.  Every chat message is handled in a goroutine of its own,    *)
(* and the handler of a reply meets the suspended call only through the    *)
(* map pendingTasks and a channel of capacity one.                         *)
(*                                                                         *)
(* The identity of a channel is the call that made it.  A message in a     *)
(* channel is the reply whose handler put it there.                        *)
(***************************************************************************)
EXTENDS Naturals, FiniteSets

CONSTANTS
  Calls,        (* the tool calls made on the main registry             *)
  Replies,      (* the approve/reject messages humans send              *)
  Tool,         (* Tool[c] is the name of the tool that call c names    *)
  Registered,   (* names mounted in the registry                        *)
  Risky,        (* bash calls whose arguments match a dangerous pattern *)
  Cancellable,  (* calls whose context somebody can cancel              *)
  MaxRestarts,  (* bounds how often the process dies and is restarted   *)
  NoReply,      (* an empty channel, no verdict                         *)
  NoCall        (* a reply that has not been sent is about no call      *)

ASSUME ApprovalAssumption ==
  /\ NoReply \notin Replies
  /\ NoCall \notin Calls
  /\ MaxRestarts \in Nat

VARIABLES
  taskCounter,  (* tickets handed out by this process                   *)
  pendingTasks, (* the map: pairs of a ticket and the channel it names  *)
  ch,           (* content of the channel of each call                  *)
  pc,           (* where the goroutine of each call is                  *)
  taskID,       (* ticket of each call, 0 before it has one             *)
  by,           (* the reply that woke a call, NoReply if none did      *)
  outcome,      (* what became of each call                             *)
  notices,      (* calls whose approval request reached the chat        *)
  hpc,          (* where the handler of each reply is                   *)
  about,        (* the call whose request the human was answering       *)
  allowed,      (* whether the reply says approve                       *)
  target,       (* the channel the handler found in the map             *)
  restarts      (* times the process was restarted                      *)

callVars  == <<ch, pc, taskID, by, outcome, notices>>
replyVars == <<hpc, about, allowed, target>>
vars == <<taskCounter, pendingTasks, callVars, replyVars, restarts>>

-----------------------------------------------------------------------------
(* A call is at "start" until the engine executes it.  "ticketed",         *)
(* "registered", "waiting" and "leaving" are the stages of                 *)
(* WaitForApproval; "dead" is a call the process took with it.             *)
Stages == {"start", "ticketed", "registered", "waiting", "leaving",
           "allowed", "running", "done", "dead"}

Outcomes == {"none", "unknown", "intercepted", "running", "over"}

HandlerStages == {"unsent", "found", "confirmed", "notfound", "lost"}

(* IsDangerousCommand: file writes always, bash by pattern, nothing else.  *)
IsDangerous(c) ==
  \/ Tool[c] \in {"write_file", "edit_file"}
  \/ Tool[c] = "bash" /\ c \in Risky

(* Calls between storing their map entry and their deferred delete.        *)
Suspended(c) == pc[c] \in {"registered", "waiting", "leaving"}

Executed(c) == outcome[c] \in {"running", "over"}

(* Bug: a call nobody answered counts as approved.                         *)
SilenceIsConsent(c) == by[c] # NoReply => allowed[by[c]]

Approved(c) == by[c] # NoReply /\ allowed[by[c]]

Init ==
  /\ taskCounter = 0
  /\ pendingTasks = {}
  /\ ch = [c \in Calls |-> NoReply]
  /\ pc = [c \in Calls |-> "start"]
  /\ taskID = [c \in Calls |-> 0]
  /\ by = [c \in Calls |-> NoReply]
  /\ outcome = [c \in Calls |-> "none"]
  /\ notices = {}
  /\ hpc = [r \in Replies |-> "unsent"]
  /\ about = [r \in Replies |-> NoCall]
  /\ allowed = [r \in Replies |-> FALSE]
  /\ target = [r \in Replies |-> NoCall]
  /\ restarts = 0

-----------------------------------------------------------------------------
(* Goroutine of a tool call.                                               *)

(* Registry.Execute refuses a name it does not know.                       *)
RouteUnknown(c) ==
  /\ pc[c] = "start"
  /\ Tool[c] \notin Registered
  /\ pc' = [pc EXCEPT ![c] = "done"]
  /\ outcome' = [outcome EXCEPT ![c] = "unknown"]
  /\ UNCHANGED <<taskCounter, pendingTasks, ch, taskID, by, notices,
                 replyVars, restarts>>

(* The middleware lets a harmless call through.                            *)
PassThrough(c) ==
  /\ pc[c] = "start"
  /\ Tool[c] \in Registered
  /\ ~IsDangerous(c)
  /\ pc' = [pc EXCEPT ![c] = "allowed"]
  /\ UNCHANGED <<taskCounter, pendingTasks, ch, taskID, by, outcome, notices,
                 replyVars, restarts>>

(* Bug: the counter is read and not advanced, as by two unlocked readers.  *)
NextTaskIDStale(c) ==
  /\ pc[c] = "start" /\ Tool[c] \in Registered /\ IsDangerous(c)
  /\ taskID' = [taskID EXCEPT ![c] = taskCounter + 1]
  /\ pc' = [pc EXCEPT ![c] = "ticketed"]
  /\ UNCHANGED <<taskCounter, pendingTasks, ch, by, outcome, notices,
                 replyVars, restarts>>

(* The middleware draws a ticket for a dangerous call (an atomic add).     *)
NextTaskID(c) ==
  /\ pc[c] = "start"
  /\ Tool[c] \in Registered
  /\ IsDangerous(c)
  /\ taskCounter' = taskCounter + 1
  /\ taskID' = [taskID EXCEPT ![c] = taskCounter + 1]
  /\ pc' = [pc EXCEPT ![c] = "ticketed"]
  /\ UNCHANGED <<pendingTasks, ch, by, outcome, notices, replyVars, restarts>>

(* WaitForApproval makes an empty channel and stores it under the ticket.  *)
Register(c) ==
  /\ pc[c] = "ticketed"
  /\ ch' = [ch EXCEPT ![c] = NoReply]
  /\ pendingTasks' = {p \in pendingTasks : p[1] # taskID[c]}
                       \cup {<<taskID[c], c>>}
  /\ pc' = [pc EXCEPT ![c] = "registered"]
  /\ UNCHANGED <<taskCounter, taskID, by, outcome, notices, replyVars,
                 restarts>>

(* The request reaches the chat while sendMsg has not returned yet.        *)
NoticeArrives(c) ==
  /\ pc[c] = "registered"
  /\ c \notin notices
  /\ notices' = notices \cup {c}
  /\ UNCHANGED <<taskCounter, pendingTasks, ch, pc, taskID, by, outcome,
                 replyVars, restarts>>

(* sendMsg returns, its error only logged, and the goroutine selects.      *)
Suspend(c) ==
  /\ pc[c] = "registered"
  /\ pc' = [pc EXCEPT ![c] = "waiting"]
  /\ UNCHANGED <<taskCounter, pendingTasks, ch, taskID, by, outcome, notices,
                 replyVars, restarts>>

(* select: a verdict is in the channel.                                    *)
Receive(c) ==
  /\ pc[c] = "waiting"
  /\ ch[c] # NoReply
  /\ by' = [by EXCEPT ![c] = ch[c]]
  /\ ch' = [ch EXCEPT ![c] = NoReply]
  /\ pc' = [pc EXCEPT ![c] = "leaving"]
  /\ UNCHANGED <<taskCounter, pendingTasks, taskID, outcome, notices,
                 replyVars, restarts>>

(* Bug: no timeout, as in the version the code descends from.              *)
TimeOutMissing(c) == pc[c] = "waiting" /\ FALSE

(* select: the timeout fires, even with a verdict in the channel.          *)
TimeOut(c) ==
  /\ pc[c] = "waiting"
  /\ pc' = [pc EXCEPT ![c] = "leaving"]
  /\ UNCHANGED <<taskCounter, pendingTasks, ch, taskID, by, outcome, notices,
                 replyVars, restarts>>

(* select: the context is done.                                            *)
Cancel(c) ==
  /\ pc[c] = "waiting"
  /\ c \in Cancellable
  /\ pc' = [pc EXCEPT ![c] = "leaving"]
  /\ UNCHANGED <<taskCounter, pendingTasks, ch, taskID, by, outcome, notices,
                 replyVars, restarts>>

(* Bug: the entry is deleted only on the path that received a verdict.     *)
CleanUpIfAnswered(c) ==
  /\ pc[c] = "leaving"
  /\ pendingTasks' = {p \in pendingTasks : by[c] = NoReply \/ p[1] # taskID[c]}
  /\ pc' = [pc EXCEPT ![c] = IF Approved(c) THEN "allowed" ELSE "done"]
  /\ outcome' = [outcome EXCEPT ![c] = IF Approved(c) THEN @ ELSE "intercepted"]
  /\ UNCHANGED <<taskCounter, ch, taskID, by, notices, replyVars, restarts>>

(* The deferred delete, then the registry acts on the verdict.             *)
CleanUp(c) ==
  /\ pc[c] = "leaving"
  /\ pendingTasks' = {p \in pendingTasks : p[1] # taskID[c]}
  /\ \/ /\ Approved(c)
        /\ pc' = [pc EXCEPT ![c] = "allowed"]
        /\ UNCHANGED outcome
     \/ /\ ~Approved(c)
        /\ pc' = [pc EXCEPT ![c] = "done"]
        /\ outcome' = [outcome EXCEPT ![c] = "intercepted"]
  /\ UNCHANGED <<taskCounter, ch, taskID, by, notices, replyVars, restarts>>

(* safeExecute enters the tool.                                            *)
StartTool(c) ==
  /\ pc[c] = "allowed"
  /\ pc' = [pc EXCEPT ![c] = "running"]
  /\ outcome' = [outcome EXCEPT ![c] = "running"]
  /\ UNCHANGED <<taskCounter, pendingTasks, ch, taskID, by, notices,
                 replyVars, restarts>>

(* The tool returns, fails or panics; a panic is turned into a result.     *)
FinishTool(c) ==
  /\ pc[c] = "running"
  /\ pc' = [pc EXCEPT ![c] = "done"]
  /\ outcome' = [outcome EXCEPT ![c] = "over"]
  /\ UNCHANGED <<taskCounter, pendingTasks, ch, taskID, by, notices,
                 replyVars, restarts>>

-----------------------------------------------------------------------------
(* Goroutine of a chat message that answers the request of call c.  The    *)
(* human may answer a request at any later time, and more than once.       *)

(* Bug: the reply wakes whichever call is pending, whatever its ticket.    *)
LookupAny(r, c, yes) ==
  /\ hpc[r] = "unsent" /\ c \in notices
  /\ about' = [about EXCEPT ![r] = c]
  /\ allowed' = [allowed EXCEPT ![r] = yes]
  /\ \E p \in pendingTasks : target' = [target EXCEPT ![r] = p[2]]
  /\ hpc' = [hpc EXCEPT ![r] = "found"]
  /\ UNCHANGED <<taskCounter, pendingTasks, callVars, restarts>>

(* ResolveApproval finds the ticket in the map under the read lock.        *)
Lookup(r, c, yes) ==
  /\ hpc[r] = "unsent"
  /\ c \in notices
  /\ about' = [about EXCEPT ![r] = c]
  /\ allowed' = [allowed EXCEPT ![r] = yes]
  /\ \E p \in pendingTasks :
       /\ p[1] = taskID[c]
       /\ target' = [target EXCEPT ![r] = p[2]]
  /\ hpc' = [hpc EXCEPT ![r] = "found"]
  /\ UNCHANGED <<taskCounter, pendingTasks, callVars, restarts>>

(* ResolveApproval does not find it, and the human is told so.             *)
LookupFails(r, c, yes) ==
  /\ hpc[r] = "unsent"
  /\ c \in notices
  /\ \A p \in pendingTasks : p[1] # taskID[c]
  /\ about' = [about EXCEPT ![r] = c]
  /\ allowed' = [allowed EXCEPT ![r] = yes]
  /\ hpc' = [hpc EXCEPT ![r] = "notfound"]
  /\ UNCHANGED <<taskCounter, pendingTasks, callVars, target, restarts>>

(* Bug: the send without a default blocks on a full channel.               *)
DeliverBlocking(r) ==
  /\ hpc[r] = "found" /\ ch[target[r]] = NoReply
  /\ ch' = [ch EXCEPT ![target[r]] = r]
  /\ hpc' = [hpc EXCEPT ![r] = "confirmed"]
  /\ UNCHANGED <<taskCounter, pendingTasks, pc, taskID, by, outcome, notices,
                 about, allowed, target, restarts>>

(* Bug: the last reply wins.                                               *)
DeliverOverwriting(r) ==
  /\ hpc[r] = "found"
  /\ ch' = [ch EXCEPT ![target[r]] = r]
  /\ hpc' = [hpc EXCEPT ![r] = "confirmed"]
  /\ UNCHANGED <<taskCounter, pendingTasks, pc, taskID, by, outcome, notices,
                 about, allowed, target, restarts>>

(* The non-blocking send; the human is told "Approved" or "Rejected"       *)
(* whether or not the channel had room.                                    *)
Deliver(r) ==
  /\ hpc[r] = "found"
  /\ ch' = IF ch[target[r]] = NoReply
             THEN [ch EXCEPT ![target[r]] = r]
             ELSE ch
  /\ hpc' = [hpc EXCEPT ![r] = "confirmed"]
  /\ UNCHANGED <<taskCounter, pendingTasks, pc, taskID, by, outcome, notices,
                 about, allowed, target, restarts>>

-----------------------------------------------------------------------------
(* The process dies and is started again: calls and handlers under way are *)
(* gone, the map is empty and the ticket counter starts over.  The chat    *)
(* keeps the old requests.                                                 *)
Restart ==
  /\ restarts < MaxRestarts
  /\ restarts' = restarts + 1
  /\ taskCounter' = 0
  /\ pendingTasks' = {}
  /\ pc' = [c \in Calls |-> IF pc[c] \in {"start", "done"} THEN pc[c]
                                                           ELSE "dead"]
  /\ hpc' = [r \in Replies |-> IF hpc[r] = "found" THEN "lost" ELSE hpc[r]]
  /\ UNCHANGED <<ch, taskID, by, outcome, notices, about, allowed, target>>

Begin(c) == RouteUnknown(c) \/ PassThrough(c) \/ NextTaskID(c)

Select(c) == Receive(c) \/ TimeOut(c) \/ Cancel(c)

CallStep(c) ==
  \/ Begin(c)
  \/ Register(c)
  \/ NoticeArrives(c)
  \/ Suspend(c)
  \/ Select(c)
  \/ CleanUp(c)
  \/ StartTool(c)
  \/ FinishTool(c)

HandlerStep(r) ==
  \/ \E c \in Calls, yes \in BOOLEAN : Lookup(r, c, yes) \/ LookupFails(r, c, yes)
  \/ Deliver(r)

Next ==
  \/ \E c \in Calls : CallStep(c)
  \/ \E r \in Replies : HandlerStep(r)
  \/ Restart

Spec == Init /\ [][Next]_vars

(* The steps the Go scheduler and the timer cannot withhold forever.  No   *)
(* human is obliged to reply, and no tool is obliged to return.            *)
Fairness ==
  /\ \A c \in Calls : WF_vars(Register(c) \/ Suspend(c) \/ CleanUp(c))
  /\ \A c \in Calls : WF_vars(TimeOut(c))
  /\ \A r \in Replies : WF_vars(Deliver(r))

FairSpec == Spec /\ Fairness

-----------------------------------------------------------------------------
(* Types of the variables (approve.go's structs and locals); a handler     *)
(* that found an entry holds a channel, never nil.                         *)
TypeOK ==
  /\ taskCounter \in Nat
  /\ pendingTasks \subseteq (Nat \X Calls)
  /\ ch \in [Calls -> Replies \cup {NoReply}]
  /\ pc \in [Calls -> Stages]
  /\ taskID \in [Calls -> Nat]
  /\ by \in [Calls -> Replies \cup {NoReply}]
  /\ outcome \in [Calls -> Outcomes]
  /\ notices \subseteq Calls
  /\ hpc \in [Replies -> HandlerStages]
  /\ about \in [Replies -> Calls \cup {NoCall}]
  /\ allowed \in [Replies -> BOOLEAN]
  /\ target \in [Replies -> Calls \cup {NoCall}]
  /\ \A r \in Replies : hpc[r] = "found" => {about[r], target[r]} \subseteq Calls
  /\ restarts \in Nat

(* A dangerous call enters its tool only after a human approved, and the   *)
(* reply that woke it named its own ticket: no reply wakes another call    *)
(* with another ticket, and timeout and cancellation never let one run.    *)
ExecutedOnlyIfApproved ==
  \A c \in Calls :
    Executed(c) /\ IsDangerous(c) =>
      \E r \in Replies :
        by[c] = r /\ allowed[r] /\ taskID[about[r]] = taskID[c]

(* In a process that was never restarted the human approved the very       *)
(* operation that runs: tickets are never shared between two requests.     *)
ApprovedAsShown ==
  restarts = 0 =>
    \A c \in Calls :
      Executed(c) /\ IsDangerous(c) =>
        \E r \in Replies : by[c] = r /\ allowed[r] /\ about[r] = c

(* The map holds an entry for each suspended call, under its own ticket    *)
(* and naming its own channel, and nothing else: an exit path that leaks   *)
(* an entry, and an entry lost to another call, both break it.             *)
PendingExact ==
  pendingTasks = {<<taskID[c], c>> : c \in {d \in Calls : Suspended(d)}}

(* A reply accepted into the channel of a suspended call stays there until *)
(* that call takes it: a second reply never replaces the first.            *)
FirstReplyKept ==
  [][\A c \in Calls :
       ch[c] # NoReply /\ pc[c] \in {"registered", "waiting"} /\ ch'[c] # ch[c]
         => by'[c] = ch[c] /\ ch'[c] = NoReply]_vars

(* A suspended call is always released: the timeout bounds the wait and    *)
(* the call leaves the map, even when nobody replies.                      *)
EverySuspensionEnds ==
  \A c \in Calls :
    pc[c] \in {"ticketed", "registered", "waiting", "leaving"}
      ~> pc[c] \in {"allowed", "running", "done", "dead"}

(* The handler of a reply is never blocked by the channel it sends to, not *)
(* by a second reply and not by a call that has gone.                      *)
EveryReplyAnswered ==
  \A r \in Replies : hpc[r] = "found" ~> hpc[r] \in {"confirmed", "lost"}

-----------------------------------------------------------------------------
(* The flow implements HumanGate, whose promise ends with the process.     *)
Gated == {c \in Calls : Tool[c] \in Registered /\ IsDangerous(c)}

SaidYes == {c \in Calls : \E r \in Replies : about[r] = c /\ allowed[r]}

Fate(c) ==
  CASE outcome[c] = "running" -> "running"
    [] outcome[c] = "over" -> "over"
    [] outcome[c] \in {"unknown", "intercepted"} -> "refused"
    [] OTHER -> "idle"

Gate == INSTANCE HumanGate WITH
  asked <- notices, yes <- SaidYes, stage <- [c \in Calls |-> Fate(c)],
  up <- restarts = 0

(* Every step of the goroutines, the map and the channels is a step of the *)
(* abstract gate or none: a gated call runs only after the human was asked *)
(* about it and approved it.                                               *)
GateSpec == Gate!Spec

-----------------------------------------------------------------------------
(* What a message of the code claims and the code does not keep.           *)

(* bot.go tells the human "Approved task" / "Rejected task" as a fact: a   *)
(* call that was confirmed as approved has not been turned down.           *)
ConfirmationIsTrue ==
  \A r \in Replies :
    hpc[r] = "confirmed" /\ allowed[r] => outcome[about[r]] # "intercepted"

=============================================================================
