--------------------------- MODULE ApprovalProofs ---------------------------
(***************************************************************************)
(* Proofs about Approval, for any number of calls, replies and restarts.   *)
(*                                                                         *)
(* The safety properties follow from one inductive invariant.  It says     *)
(* that whatever travels (an entry of the map, a channel held by a         *)
(* handler, a verdict in a channel, a verdict taken) keeps the ticket it   *)
(* set out with, and that the tickets of calls under way differ.           *)
(***************************************************************************)
EXTENDS Approval, TLAPS

Live(c) == pc[c] \in {"ticketed", "registered", "waiting", "leaving"}

(* Reply r was sent about a request that was shown, and its ticket is c's. *)
SameTicket(r, c) ==
  /\ about[r] \in notices
  /\ taskID[about[r]] = taskID[c]
  /\ pc[c] # "start"

(* Tickets of calls under way are drawn by this process and differ.        *)
TicketInv ==
  /\ \A c \in Calls : Live(c) => taskID[c] \in 1..taskCounter
  /\ \A c, d \in Calls : Live(c) /\ Live(d) /\ taskID[c] = taskID[d] => c = d

(* Before a restart that holds of every ticket ever drawn.                 *)
FreshInv ==
  restarts = 0 =>
    /\ \A c \in Calls : taskID[c] <= taskCounter
    /\ \A c, d \in Calls : taskID[c] = taskID[d] /\ taskID[c] # 0 => c = d

(* PendingExact, read element by element.                                  *)
MapInv ==
  /\ \A p \in pendingTasks : p[2] \in Calls /\ Suspended(p[2]) /\ p = <<taskID[p[2]], p[2]>>
  /\ \A c \in Calls : Suspended(c) => <<taskID[c], c>> \in pendingTasks

(* A request in the chat names a ticket its call has drawn.                *)
NoticeInv == \A c \in notices : pc[c] # "start" /\ taskID[c] # 0

TravelInv ==
  /\ \A r \in Replies : hpc[r] = "found" => SameTicket(r, target[r])
  /\ \A c \in Calls : ch[c] # NoReply => hpc[ch[c]] = "confirmed" /\ SameTicket(ch[c], c)
  /\ \A c \in Calls : by[c] # NoReply => hpc[by[c]] = "confirmed" /\ SameTicket(by[c], c)

(* A dangerous call past the gate was approved; one before it has not run. *)
GateInv ==
  /\ \A c \in Calls : Executed(c) => pc[c] \in {"running", "done", "dead"}
  /\ \A c \in Calls :
    (pc[c] \in {"allowed", "running"} \/ Executed(c)) /\ IsDangerous(c) => Approved(c)

IInv ==
  /\ TypeOK
  /\ TicketInv
  /\ FreshInv
  /\ NoticeInv
  /\ MapInv
  /\ TravelInv
  /\ GateInv

-----------------------------------------------------------------------------
LEMMA InitIInv == Init => IInv
  BY ApprovalAssumption
  DEF Init, IInv, TypeOK, TicketInv, FreshInv, NoticeInv, MapInv, TravelInv, GateInv,
      Live, Suspended, Executed, Stages, Outcomes, HandlerStages

LEMMA RouteUnknownKeeps ==
  ASSUME IInv, NEW c \in Calls, RouteUnknown(c)
  PROVE  IInv'
<1>1. TypeOK'
  BY ApprovalAssumption DEF IInv, RouteUnknown, callVars, replyVars,
         TypeOK, Stages, Outcomes, HandlerStages
<1>2. TicketInv'
  BY ApprovalAssumption DEF IInv, RouteUnknown, callVars, replyVars,
         TypeOK, TicketInv, Live
<1>3. FreshInv'
  BY ApprovalAssumption DEF IInv, RouteUnknown, callVars, replyVars,
         TypeOK, FreshInv
<1>4. NoticeInv'
  BY ApprovalAssumption DEF IInv, RouteUnknown, callVars, replyVars,
         TypeOK, NoticeInv, TicketInv, Live
<1>5. MapInv'
  BY ApprovalAssumption DEF IInv, RouteUnknown, callVars, replyVars,
         TypeOK, TicketInv, MapInv, Live, Suspended
<1>6. TravelInv'
  BY ApprovalAssumption DEF IInv, RouteUnknown, callVars, replyVars,
         TypeOK, NoticeInv, MapInv, TravelInv, SameTicket, Suspended
<1>7. GateInv'
  BY ApprovalAssumption DEF IInv, RouteUnknown, callVars, replyVars,
         TypeOK, TravelInv, GateInv, Executed, Approved, IsDangerous
<1> QED
  BY <1>1, <1>2, <1>3, <1>4, <1>5, <1>6, <1>7 DEF IInv

LEMMA PassThroughKeeps ==
  ASSUME IInv, NEW c \in Calls, PassThrough(c)
  PROVE  IInv'
<1>1. TypeOK'
  BY ApprovalAssumption DEF IInv, PassThrough, callVars, replyVars,
         TypeOK, Stages, Outcomes, HandlerStages
<1>2. TicketInv'
  BY ApprovalAssumption DEF IInv, PassThrough, callVars, replyVars,
         TypeOK, TicketInv, Live
<1>3. FreshInv'
  BY ApprovalAssumption DEF IInv, PassThrough, callVars, replyVars,
         TypeOK, FreshInv
<1>4. NoticeInv'
  BY ApprovalAssumption DEF IInv, PassThrough, callVars, replyVars,
         TypeOK, NoticeInv, TicketInv, Live
<1>5. MapInv'
  BY ApprovalAssumption DEF IInv, PassThrough, callVars, replyVars,
         TypeOK, TicketInv, MapInv, Live, Suspended
<1>6. TravelInv'
  BY ApprovalAssumption DEF IInv, PassThrough, callVars, replyVars,
         TypeOK, NoticeInv, MapInv, TravelInv, SameTicket, Suspended
<1>7. GateInv'
  BY ApprovalAssumption DEF IInv, PassThrough, callVars, replyVars,
         TypeOK, TravelInv, GateInv, Executed, Approved, IsDangerous
<1> QED
  BY <1>1, <1>2, <1>3, <1>4, <1>5, <1>6, <1>7 DEF IInv

LEMMA NextTaskIDKeeps ==
  ASSUME IInv, NEW c \in Calls, NextTaskID(c)
  PROVE  IInv'
<1>1. TypeOK'
  BY ApprovalAssumption DEF IInv, NextTaskID, callVars, replyVars,
         TypeOK, Stages, Outcomes, HandlerStages
<1>2. TicketInv'
  BY ApprovalAssumption DEF IInv, NextTaskID, callVars, replyVars,
         TypeOK, TicketInv, Live
<1>3. FreshInv'
  BY ApprovalAssumption DEF IInv, NextTaskID, callVars, replyVars,
         TypeOK, FreshInv
<1>4. NoticeInv'
  BY ApprovalAssumption DEF IInv, NextTaskID, callVars, replyVars,
         TypeOK, NoticeInv, TicketInv, Live
<1>5. MapInv'
  BY ApprovalAssumption DEF IInv, NextTaskID, callVars, replyVars,
         TypeOK, TicketInv, MapInv, Live, Suspended
<1>6. TravelInv'
  BY ApprovalAssumption DEF IInv, NextTaskID, callVars, replyVars,
         TypeOK, NoticeInv, MapInv, TravelInv, SameTicket, Suspended
<1>7. GateInv'
  BY ApprovalAssumption DEF IInv, NextTaskID, callVars, replyVars,
         TypeOK, TravelInv, GateInv, Executed, Approved, IsDangerous
<1> QED
  BY <1>1, <1>2, <1>3, <1>4, <1>5, <1>6, <1>7 DEF IInv

LEMMA RegisterKeeps ==
  ASSUME IInv, NEW c \in Calls, Register(c)
  PROVE  IInv'
<1>1. TypeOK'
  BY ApprovalAssumption DEF IInv, Register, callVars, replyVars,
         TypeOK, Stages, Outcomes, HandlerStages
<1>2. TicketInv'
  BY ApprovalAssumption DEF IInv, Register, callVars, replyVars,
         TypeOK, TicketInv, Live
<1>3. FreshInv'
  BY ApprovalAssumption DEF IInv, Register, callVars, replyVars,
         TypeOK, FreshInv
<1>4. NoticeInv'
  BY ApprovalAssumption DEF IInv, Register, callVars, replyVars,
         TypeOK, NoticeInv, TicketInv, Live
<1>5. MapInv'
  BY ApprovalAssumption DEF IInv, Register, callVars, replyVars,
         TypeOK, TicketInv, MapInv, Live, Suspended
<1>6. TravelInv'
  BY ApprovalAssumption DEF IInv, Register, callVars, replyVars,
         TypeOK, NoticeInv, MapInv, TravelInv, SameTicket, Suspended
<1>7. GateInv'
  BY ApprovalAssumption DEF IInv, Register, callVars, replyVars,
         TypeOK, TravelInv, GateInv, Executed, Approved, IsDangerous
<1> QED
  BY <1>1, <1>2, <1>3, <1>4, <1>5, <1>6, <1>7 DEF IInv

LEMMA NoticeArrivesKeeps ==
  ASSUME IInv, NEW c \in Calls, NoticeArrives(c)
  PROVE  IInv'
<1>1. TypeOK'
  BY ApprovalAssumption DEF IInv, NoticeArrives, callVars, replyVars,
         TypeOK, Stages, Outcomes, HandlerStages
<1>2. TicketInv'
  BY ApprovalAssumption DEF IInv, NoticeArrives, callVars, replyVars,
         TypeOK, TicketInv, Live
<1>3. FreshInv'
  BY ApprovalAssumption DEF IInv, NoticeArrives, callVars, replyVars,
         TypeOK, FreshInv
<1>4. NoticeInv'
  BY ApprovalAssumption DEF IInv, NoticeArrives, callVars, replyVars,
         TypeOK, NoticeInv, TicketInv, Live
<1>5. MapInv'
  BY ApprovalAssumption DEF IInv, NoticeArrives, callVars, replyVars,
         TypeOK, TicketInv, MapInv, Live, Suspended
<1>6. TravelInv'
  BY ApprovalAssumption DEF IInv, NoticeArrives, callVars, replyVars,
         TypeOK, NoticeInv, MapInv, TravelInv, SameTicket, Suspended
<1>7. GateInv'
  BY ApprovalAssumption DEF IInv, NoticeArrives, callVars, replyVars,
         TypeOK, TravelInv, GateInv, Executed, Approved, IsDangerous
<1> QED
  BY <1>1, <1>2, <1>3, <1>4, <1>5, <1>6, <1>7 DEF IInv

LEMMA SuspendKeeps ==
  ASSUME IInv, NEW c \in Calls, Suspend(c)
  PROVE  IInv'
<1>1. TypeOK'
  BY ApprovalAssumption DEF IInv, Suspend, callVars, replyVars,
         TypeOK, Stages, Outcomes, HandlerStages
<1>2. TicketInv'
  BY ApprovalAssumption DEF IInv, Suspend, callVars, replyVars,
         TypeOK, TicketInv, Live
<1>3. FreshInv'
  BY ApprovalAssumption DEF IInv, Suspend, callVars, replyVars,
         TypeOK, FreshInv
<1>4. NoticeInv'
  BY ApprovalAssumption DEF IInv, Suspend, callVars, replyVars,
         TypeOK, NoticeInv, TicketInv, Live
<1>5. MapInv'
  BY ApprovalAssumption DEF IInv, Suspend, callVars, replyVars,
         TypeOK, TicketInv, MapInv, Live, Suspended
<1>6. TravelInv'
  BY ApprovalAssumption DEF IInv, Suspend, callVars, replyVars,
         TypeOK, NoticeInv, MapInv, TravelInv, SameTicket, Suspended
<1>7. GateInv'
  BY ApprovalAssumption DEF IInv, Suspend, callVars, replyVars,
         TypeOK, TravelInv, GateInv, Executed, Approved, IsDangerous
<1> QED
  BY <1>1, <1>2, <1>3, <1>4, <1>5, <1>6, <1>7 DEF IInv

LEMMA ReceiveKeeps ==
  ASSUME IInv, NEW c \in Calls, Receive(c)
  PROVE  IInv'
<1>1. TypeOK'
  BY ApprovalAssumption DEF IInv, Receive, callVars, replyVars,
         TypeOK, Stages, Outcomes, HandlerStages
<1>2. TicketInv'
  BY ApprovalAssumption DEF IInv, Receive, callVars, replyVars,
         TypeOK, TicketInv, Live
<1>3. FreshInv'
  BY ApprovalAssumption DEF IInv, Receive, callVars, replyVars,
         TypeOK, FreshInv
<1>4. NoticeInv'
  BY ApprovalAssumption DEF IInv, Receive, callVars, replyVars,
         TypeOK, NoticeInv, TicketInv, Live
<1>5. MapInv'
  BY ApprovalAssumption DEF IInv, Receive, callVars, replyVars,
         TypeOK, TicketInv, MapInv, Live, Suspended
<1>6. TravelInv'
  BY ApprovalAssumption DEF IInv, Receive, callVars, replyVars,
         TypeOK, NoticeInv, MapInv, TravelInv, SameTicket, Suspended
<1>7. GateInv'
  BY ApprovalAssumption DEF IInv, Receive, callVars, replyVars,
         TypeOK, TravelInv, GateInv, Executed, Approved, IsDangerous
<1> QED
  BY <1>1, <1>2, <1>3, <1>4, <1>5, <1>6, <1>7 DEF IInv

LEMMA TimeOutKeeps ==
  ASSUME IInv, NEW c \in Calls, TimeOut(c)
  PROVE  IInv'
<1>1. TypeOK'
  BY ApprovalAssumption DEF IInv, TimeOut, callVars, replyVars,
         TypeOK, Stages, Outcomes, HandlerStages
<1>2. TicketInv'
  BY ApprovalAssumption DEF IInv, TimeOut, callVars, replyVars,
         TypeOK, TicketInv, Live
<1>3. FreshInv'
  BY ApprovalAssumption DEF IInv, TimeOut, callVars, replyVars,
         TypeOK, FreshInv
<1>4. NoticeInv'
  BY ApprovalAssumption DEF IInv, TimeOut, callVars, replyVars,
         TypeOK, NoticeInv, TicketInv, Live
<1>5. MapInv'
  BY ApprovalAssumption DEF IInv, TimeOut, callVars, replyVars,
         TypeOK, TicketInv, MapInv, Live, Suspended
<1>6. TravelInv'
  BY ApprovalAssumption DEF IInv, TimeOut, callVars, replyVars,
         TypeOK, NoticeInv, MapInv, TravelInv, SameTicket, Suspended
<1>7. GateInv'
  BY ApprovalAssumption DEF IInv, TimeOut, callVars, replyVars,
         TypeOK, TravelInv, GateInv, Executed, Approved, IsDangerous
<1> QED
  BY <1>1, <1>2, <1>3, <1>4, <1>5, <1>6, <1>7 DEF IInv

LEMMA CancelKeeps ==
  ASSUME IInv, NEW c \in Calls, Cancel(c)
  PROVE  IInv'
<1>1. TypeOK'
  BY ApprovalAssumption DEF IInv, Cancel, callVars, replyVars,
         TypeOK, Stages, Outcomes, HandlerStages
<1>2. TicketInv'
  BY ApprovalAssumption DEF IInv, Cancel, callVars, replyVars,
         TypeOK, TicketInv, Live
<1>3. FreshInv'
  BY ApprovalAssumption DEF IInv, Cancel, callVars, replyVars,
         TypeOK, FreshInv
<1>4. NoticeInv'
  BY ApprovalAssumption DEF IInv, Cancel, callVars, replyVars,
         TypeOK, NoticeInv, TicketInv, Live
<1>5. MapInv'
  BY ApprovalAssumption DEF IInv, Cancel, callVars, replyVars,
         TypeOK, TicketInv, MapInv, Live, Suspended
<1>6. TravelInv'
  BY ApprovalAssumption DEF IInv, Cancel, callVars, replyVars,
         TypeOK, NoticeInv, MapInv, TravelInv, SameTicket, Suspended
<1>7. GateInv'
  BY ApprovalAssumption DEF IInv, Cancel, callVars, replyVars,
         TypeOK, TravelInv, GateInv, Executed, Approved, IsDangerous
<1> QED
  BY <1>1, <1>2, <1>3, <1>4, <1>5, <1>6, <1>7 DEF IInv

LEMMA CleanUpKeeps ==
  ASSUME IInv, NEW c \in Calls, CleanUp(c)
  PROVE  IInv'
<1>1. TypeOK'
  BY ApprovalAssumption DEF IInv, CleanUp, callVars, replyVars,
         TypeOK, Stages, Outcomes, HandlerStages
<1>2. TicketInv'
  BY ApprovalAssumption DEF IInv, CleanUp, callVars, replyVars,
         TypeOK, TicketInv, Live
<1>3. FreshInv'
  BY ApprovalAssumption DEF IInv, CleanUp, callVars, replyVars,
         TypeOK, FreshInv
<1>4. NoticeInv'
  BY ApprovalAssumption DEF IInv, CleanUp, callVars, replyVars,
         TypeOK, NoticeInv, TicketInv, Live
<1>5. MapInv'
  BY ApprovalAssumption DEF IInv, CleanUp, callVars, replyVars,
         TypeOK, TicketInv, MapInv, Live, Suspended
<1>6. TravelInv'
  BY ApprovalAssumption DEF IInv, CleanUp, callVars, replyVars,
         TypeOK, NoticeInv, MapInv, TravelInv, SameTicket, Suspended
<1>7. GateInv'
  BY ApprovalAssumption DEF IInv, CleanUp, callVars, replyVars,
         TypeOK, TravelInv, GateInv, Executed, Approved, IsDangerous
<1> QED
  BY <1>1, <1>2, <1>3, <1>4, <1>5, <1>6, <1>7 DEF IInv

LEMMA StartToolKeeps ==
  ASSUME IInv, NEW c \in Calls, StartTool(c)
  PROVE  IInv'
<1>1. TypeOK'
  BY ApprovalAssumption DEF IInv, StartTool, callVars, replyVars,
         TypeOK, Stages, Outcomes, HandlerStages
<1>2. TicketInv'
  BY ApprovalAssumption DEF IInv, StartTool, callVars, replyVars,
         TypeOK, TicketInv, Live
<1>3. FreshInv'
  BY ApprovalAssumption DEF IInv, StartTool, callVars, replyVars,
         TypeOK, FreshInv
<1>4. NoticeInv'
  BY ApprovalAssumption DEF IInv, StartTool, callVars, replyVars,
         TypeOK, NoticeInv, TicketInv, Live
<1>5. MapInv'
  BY ApprovalAssumption DEF IInv, StartTool, callVars, replyVars,
         TypeOK, TicketInv, MapInv, Live, Suspended
<1>6. TravelInv'
  BY ApprovalAssumption DEF IInv, StartTool, callVars, replyVars,
         TypeOK, NoticeInv, MapInv, TravelInv, SameTicket, Suspended
<1>7. GateInv'
  BY ApprovalAssumption DEF IInv, StartTool, callVars, replyVars,
         TypeOK, TravelInv, GateInv, Executed, Approved, IsDangerous
<1> QED
  BY <1>1, <1>2, <1>3, <1>4, <1>5, <1>6, <1>7 DEF IInv

LEMMA FinishToolKeeps ==
  ASSUME IInv, NEW c \in Calls, FinishTool(c)
  PROVE  IInv'
<1>1. TypeOK'
  BY ApprovalAssumption DEF IInv, FinishTool, callVars, replyVars,
         TypeOK, Stages, Outcomes, HandlerStages
<1>2. TicketInv'
  BY ApprovalAssumption DEF IInv, FinishTool, callVars, replyVars,
         TypeOK, TicketInv, Live
<1>3. FreshInv'
  BY ApprovalAssumption DEF IInv, FinishTool, callVars, replyVars,
         TypeOK, FreshInv
<1>4. NoticeInv'
  BY ApprovalAssumption DEF IInv, FinishTool, callVars, replyVars,
         TypeOK, NoticeInv, TicketInv, Live
<1>5. MapInv'
  BY ApprovalAssumption DEF IInv, FinishTool, callVars, replyVars,
         TypeOK, TicketInv, MapInv, Live, Suspended
<1>6. TravelInv'
  BY ApprovalAssumption DEF IInv, FinishTool, callVars, replyVars,
         TypeOK, NoticeInv, MapInv, TravelInv, SameTicket, Suspended
<1>7. GateInv'
  BY ApprovalAssumption DEF IInv, FinishTool, callVars, replyVars,
         TypeOK, TravelInv, GateInv, Executed, Approved, IsDangerous
<1> QED
  BY <1>1, <1>2, <1>3, <1>4, <1>5, <1>6, <1>7 DEF IInv

LEMMA LookupKeeps ==
  ASSUME IInv, NEW r \in Replies, NEW c \in Calls, NEW yes \in BOOLEAN, Lookup(r, c, yes)
  PROVE  IInv'
<1>1. TypeOK'
  BY ApprovalAssumption DEF IInv, Lookup, callVars, replyVars,
         TypeOK, Stages, Outcomes, HandlerStages
<1>2. TicketInv'
  BY ApprovalAssumption DEF IInv, Lookup, callVars, replyVars,
         TypeOK, TicketInv, Live
<1>3. FreshInv'
  BY ApprovalAssumption DEF IInv, Lookup, callVars, replyVars,
         TypeOK, FreshInv
<1>4. NoticeInv'
  BY ApprovalAssumption DEF IInv, Lookup, callVars, replyVars,
         TypeOK, NoticeInv, TicketInv, Live
<1>5. MapInv'
  BY ApprovalAssumption DEF IInv, Lookup, callVars, replyVars,
         TypeOK, TicketInv, MapInv, Live, Suspended
<1>6. TravelInv'
  BY ApprovalAssumption DEF IInv, Lookup, callVars, replyVars,
         TypeOK, NoticeInv, MapInv, TravelInv, SameTicket, Suspended
<1>7. GateInv'
  BY ApprovalAssumption DEF IInv, Lookup, callVars, replyVars,
         TypeOK, TravelInv, GateInv, Executed, Approved, IsDangerous
<1> QED
  BY <1>1, <1>2, <1>3, <1>4, <1>5, <1>6, <1>7 DEF IInv

LEMMA LookupFailsKeeps ==
  ASSUME IInv, NEW r \in Replies, NEW c \in Calls, NEW yes \in BOOLEAN, LookupFails(r, c, yes)
  PROVE  IInv'
<1>1. TypeOK'
  BY ApprovalAssumption DEF IInv, LookupFails, callVars, replyVars,
         TypeOK, Stages, Outcomes, HandlerStages
<1>2. TicketInv'
  BY ApprovalAssumption DEF IInv, LookupFails, callVars, replyVars,
         TypeOK, TicketInv, Live
<1>3. FreshInv'
  BY ApprovalAssumption DEF IInv, LookupFails, callVars, replyVars,
         TypeOK, FreshInv
<1>4. NoticeInv'
  BY ApprovalAssumption DEF IInv, LookupFails, callVars, replyVars,
         TypeOK, NoticeInv, TicketInv, Live
<1>5. MapInv'
  BY ApprovalAssumption DEF IInv, LookupFails, callVars, replyVars,
         TypeOK, TicketInv, MapInv, Live, Suspended
<1>6. TravelInv'
  BY ApprovalAssumption DEF IInv, LookupFails, callVars, replyVars,
         TypeOK, NoticeInv, MapInv, TravelInv, SameTicket, Suspended
<1>7. GateInv'
  BY ApprovalAssumption DEF IInv, LookupFails, callVars, replyVars,
         TypeOK, TravelInv, GateInv, Executed, Approved, IsDangerous
<1> QED
  BY <1>1, <1>2, <1>3, <1>4, <1>5, <1>6, <1>7 DEF IInv

LEMMA DeliverKeeps ==
  ASSUME IInv, NEW r \in Replies, Deliver(r)
  PROVE  IInv'
<1>1. TypeOK'
  BY ApprovalAssumption DEF IInv, Deliver, callVars, replyVars,
         TypeOK, Stages, Outcomes, HandlerStages
<1>2. TicketInv'
  BY ApprovalAssumption DEF IInv, Deliver, callVars, replyVars,
         TypeOK, TicketInv, Live
<1>3. FreshInv'
  BY ApprovalAssumption DEF IInv, Deliver, callVars, replyVars,
         TypeOK, FreshInv
<1>4. NoticeInv'
  BY ApprovalAssumption DEF IInv, Deliver, callVars, replyVars,
         TypeOK, NoticeInv, TicketInv, Live
<1>5. MapInv'
  BY ApprovalAssumption DEF IInv, Deliver, callVars, replyVars,
         TypeOK, TicketInv, MapInv, Live, Suspended
<1>6. TravelInv'
  BY ApprovalAssumption DEF IInv, Deliver, callVars, replyVars,
         TypeOK, NoticeInv, MapInv, TravelInv, SameTicket, Suspended
<1>7. GateInv'
  BY ApprovalAssumption DEF IInv, Deliver, callVars, replyVars,
         TypeOK, TravelInv, GateInv, Executed, Approved, IsDangerous
<1> QED
  BY <1>1, <1>2, <1>3, <1>4, <1>5, <1>6, <1>7 DEF IInv

LEMMA RestartKeeps ==
  ASSUME IInv, Restart
  PROVE  IInv'
<1>1. TypeOK'
  BY ApprovalAssumption DEF IInv, Restart, callVars, replyVars,
         TypeOK, Stages, Outcomes, HandlerStages
<1>2. TicketInv'
  BY ApprovalAssumption DEF IInv, Restart, callVars, replyVars,
         TypeOK, TicketInv, Live
<1>3. FreshInv'
  BY ApprovalAssumption DEF IInv, Restart, callVars, replyVars,
         TypeOK, FreshInv
<1>4. NoticeInv'
  BY ApprovalAssumption DEF IInv, Restart, callVars, replyVars,
         TypeOK, NoticeInv, TicketInv, Live
<1>5. MapInv'
  BY ApprovalAssumption DEF IInv, Restart, callVars, replyVars,
         TypeOK, TicketInv, MapInv, Live, Suspended
<1>6. TravelInv'
  BY ApprovalAssumption DEF IInv, Restart, callVars, replyVars,
         TypeOK, NoticeInv, MapInv, TravelInv, SameTicket, Suspended
<1>7. GateInv'
  BY ApprovalAssumption DEF IInv, Restart, callVars, replyVars,
         TypeOK, TravelInv, GateInv, Executed, Approved, IsDangerous
<1> QED
  BY <1>1, <1>2, <1>3, <1>4, <1>5, <1>6, <1>7 DEF IInv

LEMMA NextIInv == IInv /\ [Next]_vars => IInv'
<1> SUFFICES ASSUME IInv, [Next]_vars PROVE IInv'
  OBVIOUS
<1>1. ASSUME NEW c \in Calls, CallStep(c) PROVE IInv'
  BY <1>1, RouteUnknownKeeps, PassThroughKeeps, NextTaskIDKeeps, RegisterKeeps,
     NoticeArrivesKeeps, SuspendKeeps, ReceiveKeeps, TimeOutKeeps, CancelKeeps,
     CleanUpKeeps, StartToolKeeps, FinishToolKeeps
     DEF CallStep, Begin, Select
<1>2. ASSUME NEW r \in Replies, HandlerStep(r) PROVE IInv'
  BY <1>2, LookupKeeps, LookupFailsKeeps, DeliverKeeps DEF HandlerStep
<1>3. CASE UNCHANGED vars
  BY <1>3 DEF vars, callVars, replyVars, IInv, TypeOK, TicketInv, FreshInv, NoticeInv,
     MapInv, TravelInv, SameTicket, GateInv, Live, Suspended, Executed, Approved,
     IsDangerous
<1> QED
  BY <1>1, <1>2, <1>3, RestartKeeps DEF Next

THEOREM Invariance == Spec => []IInv
  BY InitIInv, NextIInv, PTL DEF Spec

-----------------------------------------------------------------------------
(* The variables keep their types, and no handler holds a nil channel.     *)
THEOREM TypeCorrect == Spec => []TypeOK
<1>1. IInv => TypeOK
  BY DEF IInv
<1> QED
  BY <1>1, Invariance, PTL

(* No dangerous call runs unless a reply that named its ticket approved    *)
(* it, whatever the interleaving of calls, replies, timeouts and restarts. *)
THEOREM ApprovalRequired == Spec => []ExecutedOnlyIfApproved
<1>1. IInv => ExecutedOnlyIfApproved
  BY DEF IInv, TypeOK, GateInv, TravelInv, SameTicket, ExecutedOnlyIfApproved, Approved
<1> QED
  BY <1>1, Invariance, PTL

(* Until the process is restarted the approved request is the operation    *)
(* that runs: tickets are never shared.                                    *)
THEOREM ApprovalMatches == Spec => []ApprovedAsShown
<1>1. IInv => ApprovedAsShown
  BY DEF IInv, TypeOK, GateInv, TravelInv, NoticeInv, FreshInv, SameTicket,
     ApprovedAsShown, Approved
<1> QED
  BY <1>1, Invariance, PTL

(* pendingTasks never leaks an entry and never loses one.                  *)
THEOREM NoLeakNoLoss == Spec => []PendingExact
<1>1. IInv => PendingExact
  BY DEF IInv, TypeOK, MapInv, PendingExact
<1> QED
  BY <1>1, Invariance, PTL

(* A verdict accepted for a suspended call is the one it acts on, however  *)
(* many replies follow.                                                    *)
THEOREM FirstReplyWins == Spec => FirstReplyKept
<1>1. IInv /\ [Next]_vars =>
        [\A c \in Calls :
           ch[c] # NoReply /\ pc[c] \in {"registered", "waiting"} /\ ch'[c] # ch[c]
             => by'[c] = ch[c] /\ ch'[c] = NoReply]_vars
  BY DEF IInv, TypeOK, Next, CallStep, Begin, Select, HandlerStep, vars, callVars,
     replyVars, RouteUnknown, PassThrough, NextTaskID, Register, NoticeArrives,
     Suspend, Receive, TimeOut, Cancel, CleanUp, StartTool, FinishTool, Lookup,
     LookupFails, Deliver, Restart
<1> QED
  BY <1>1, Invariance, PTL DEF Spec, FirstReplyKept

-----------------------------------------------------------------------------
(* The flow implements HumanGate.                                          *)

(* What a goroutine's place says about the outcome, and a handler's about  *)
(* its reply.                                                              *)
PhaseInv ==
  /\ \A c \in Calls :
       /\ pc[c] \notin {"running", "done", "dead"} => outcome[c] = "none"
       /\ pc[c] = "running" => outcome[c] = "running"
       /\ Live(c) \/ c \in notices => Tool[c] \in Registered /\ IsDangerous(c)
  /\ \A r \in Replies : hpc[r] = "unsent" => about[r] = NoCall

LEMMA PhaseInvariance == Spec => []PhaseInv
<1>1. Init => PhaseInv
  BY DEF Init, PhaseInv, Live
<1>2. TypeOK /\ PhaseInv /\ [Next]_vars => PhaseInv'
  <2> SUFFICES ASSUME TypeOK, PhaseInv, [Next]_vars PROVE PhaseInv'
    OBVIOUS
  <2> USE DEF TypeOK, PhaseInv, Live, IsDangerous, callVars, replyVars
  <2>1. ASSUME NEW c \in Calls, CallStep(c) PROVE PhaseInv'
    BY <2>1 DEF CallStep, Begin, Select, RouteUnknown, PassThrough, NextTaskID,
       Register, NoticeArrives, Suspend, Receive, TimeOut, Cancel, CleanUp,
       StartTool, FinishTool
  <2>2. ASSUME NEW r \in Replies, HandlerStep(r) PROVE PhaseInv'
    BY <2>2 DEF HandlerStep, Lookup, LookupFails, Deliver
  <2>3. CASE Restart
    BY <2>3 DEF Restart
  <2>4. CASE UNCHANGED vars
    BY <2>4 DEF vars
  <2> QED
    BY <2>1, <2>2, <2>3, <2>4 DEF Next
<1> QED
  BY <1>1, <1>2, TypeCorrect, PTL DEF Spec

gateVars == <<notices, SaidYes, [c \in Calls |-> Fate(c)], restarts = 0>>

(* Every step maps to a step of HumanGate or to none.                      *)
LEMMA GateStep ==
  ASSUME IInv, PhaseInv, [Next]_vars
  PROVE  [Gate!Next]_gateVars
<1> SUFFICES ASSUME (restarts = 0)' PROVE [Gate!Next]_gateVars
  BY DEF Gate!Next
<1> USE DEF IInv, TypeOK, PhaseInv, callVars, replyVars, gateVars
<1>1. ASSUME NEW c \in Calls, RouteUnknown(c) PROVE Gate!Refuse(c)
  BY <1>1 DEF RouteUnknown, Gate!Refuse, SaidYes, Fate
<1>2. ASSUME NEW c \in Calls,
             \/ PassThrough(c) \/ NextTaskID(c) \/ Register(c) \/ Suspend(c)
             \/ Receive(c) \/ TimeOut(c) \/ Cancel(c)
      PROVE  UNCHANGED gateVars
  BY <1>2 DEF PassThrough, NextTaskID, Register, Suspend, Receive, TimeOut, Cancel,
     SaidYes, Fate
<1>3. ASSUME NEW c \in Calls, NoticeArrives(c) PROVE Gate!Ask(c)
  BY <1>3 DEF NoticeArrives, Gate!Ask, SaidYes, Fate, Gated, Live
<1>4. ASSUME NEW c \in Calls, CleanUp(c) PROVE Gate!Refuse(c) \/ UNCHANGED gateVars
  BY <1>4 DEF CleanUp, Gate!Refuse, SaidYes, Fate
<1>5. ASSUME NEW c \in Calls, StartTool(c) PROVE Gate!Run(c)
  <2>1. c \in Gated => c \in SaidYes
    BY <1>5 DEF StartTool, Gated, SaidYes, GateInv, TravelInv, SameTicket, Approved,
       FreshInv, NoticeInv
  <2> QED
    BY <1>5, <2>1 DEF StartTool, Gate!Run, SaidYes, Fate
<1>6. ASSUME NEW c \in Calls, FinishTool(c) PROVE Gate!Finish(c)
  BY <1>6 DEF FinishTool, Gate!Finish, SaidYes, Fate
<1>7. ASSUME NEW r \in Replies, NEW c \in Calls, NEW yes \in BOOLEAN,
             Lookup(r, c, yes) \/ LookupFails(r, c, yes)
      PROVE  Gate!SayYes(c) \/ UNCHANGED gateVars
  <2>1. about[r] = NoCall /\ NoCall \notin Calls
    BY <1>7, ApprovalAssumption DEF Lookup, LookupFails
  <2>2. /\ about' = [about EXCEPT ![r] = c]
        /\ allowed' = [allowed EXCEPT ![r] = yes]
        /\ c \in notices
        /\ UNCHANGED <<notices, outcome, restarts>>
    BY <1>7 DEF Lookup, LookupFails
  <2>3. UNCHANGED [d \in Calls |-> Fate(d)]
    BY <2>2 DEF Fate
  <2>4. CASE yes
    <3>1. SaidYes' = SaidYes \cup {c}
      BY <2>1, <2>2, <2>4 DEF SaidYes
    <3> QED
      BY <2>2, <2>3, <3>1 DEF Gate!SayYes
  <2>5. CASE ~yes
    <3>1. SaidYes' = SaidYes
      BY <2>1, <2>2, <2>5 DEF SaidYes
    <3> QED
      BY <2>2, <2>3, <3>1
  <2> QED
    BY <2>4, <2>5
<1>8. ASSUME NEW r \in Replies, Deliver(r) PROVE UNCHANGED gateVars
  BY <1>8 DEF Deliver, SaidYes, Fate
<1>9. ASSUME UNCHANGED vars PROVE UNCHANGED gateVars
  BY <1>9 DEF vars, SaidYes, Fate
<1>10. ~Restart
  BY DEF Restart
<1> HIDE DEF IInv, TypeOK, PhaseInv, callVars, replyVars, gateVars
<1>11. \/ \E c \in Calls : \/ Gate!Ask(c) \/ Gate!SayYes(c) \/ Gate!Run(c)
                          \/ Gate!Refuse(c) \/ Gate!Finish(c)
       \/ UNCHANGED gateVars
  <2>1. ASSUME NEW c \in Calls, CallStep(c)
        PROVE  \/ Gate!Ask(c) \/ Gate!Run(c) \/ Gate!Refuse(c) \/ Gate!Finish(c)
               \/ UNCHANGED gateVars
    BY <2>1, <1>1, <1>2, <1>3, <1>4, <1>5, <1>6 DEF CallStep, Begin, Select
  <2>2. ASSUME NEW r \in Replies, HandlerStep(r)
        PROVE  (\E c \in Calls : Gate!SayYes(c)) \/ UNCHANGED gateVars
    BY <2>2, <1>7, <1>8 DEF HandlerStep
  <2> QED
    BY <2>1, <2>2, <1>9, <1>10 DEF Next
<1>12. (restarts = 0)' = TRUE
  OBVIOUS
<1> QED
  BY <1>11, <1>12 DEF Gate!Next

(* In a process that was not restarted, the map, the tickets and the       *)
(* channels together implement the abstract gate.                          *)
THEOREM ImplementsGate == Spec => GateSpec
<1>1. Init => Gate!Init
  BY DEF Init, Gate!Init, SaidYes, Fate
<1>2. IInv /\ PhaseInv /\ [Next]_vars => [Gate!Next]_gateVars
  BY GateStep
<1> QED
  BY <1>1, <1>2, Invariance, PhaseInvariance, PTL
     DEF Spec, GateSpec, Gate!Spec, gateVars

=============================================================================
