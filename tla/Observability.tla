--------------------------- MODULE Observability ----------------------------
(***************************************************************************)
(* What the runs of an agent cost, and the traces they leave.              *)
(*                                                                         *)
(* An agent is a run, or a tool call that has become a sub-agent.  Each of *)
(* its turns asks the model, and the tracker around the provider adds the  *)
(* usage to the session of the chat, under the session's lock; tools and   *)
(* sub-agents have the session in their context.  The total is logged      *)
(* without the lock.                                                       *)
(*                                                                         *)
(* Each run, turn, call of the model, tool call and sub-agent has a span.  *)
(* A new span is appended to its parent's children under the parent's      *)
(* lock, which matters for turns, under which tools run in parallel.  The  *)
(* registry drops the context that holds the tool's span: the span of a    *)
(* sub-agent is a child of the turn, beside the tool call it works for.    *)
(***************************************************************************)
EXTENDS Naturals, Sequences

CONSTANTS
  Runs,     (* calls of AgentEngine.Run                                    *)
  Tools,    (* tool calls                                                  *)
  Of,       (* the run, or the tool call turned sub-agent, that made each  *)
  Chats,
  Chat,     (* the chat of each run and tool call                          *)
  Usage,    (* what a call of the model may cost                           *)
  MaxTurns, (* bounds the turns of a run; a sub-agent is recalled          *)
  Nobody

Agents == Runs \cup Tools

ASSUME ObservabilityAssumption ==
  /\ Of \in [Tools -> Agents] /\ Runs \cap Tools = {}
  /\ Chat \in [Agents -> Chats]
  /\ \A t \in Tools : Of[t] # t /\ Chat[t] = Chat[Of[t]]
  /\ Usage \subseteq Nat \ {0}
  /\ MaxTurns \in Nat
  /\ Nobody \notin Agents

VARIABLES
  sessions, (* SessionManager.sessions: the number of a chat's, or 0       *)
  total,    (* TotalCostUSD of each session                                *)
  lock,     (* who holds the lock of each session                          *)
  session,  (* the session in the context of each agent                    *)
  pc,       (* where each agent or tool call is                            *)
  turn,     (* turnCount                                                   *)
  usage,    (* what the model's last answer cost                           *)
  loaded,   (* the total as it was loaded to be added to                   *)
  logged,   (* the total that was last logged                              *)
  mu,       (* who holds the lock of each agent's turn span                *)
  seen,     (* the children of a turn as they were loaded to be added to   *)
  children, (* Span.Children of each span                                  *)
  ended,    (* the spans that have an EndTime                              *)
  calledIn, (* history: in which turn of its agent each tool was called    *)
  charged,  (* history: what each chat was billed                          *)
  own       (* history: what each agent was billed                         *)

billVars == <<sessions, total, lock, session, usage, loaded, logged, charged, own>>
spanVars == <<mu, seen, children, ended, calledIn>>
vars == <<billVars, spanVars, pc, turn>>

Whole(a) == <<a, "whole", 0>>                 (* Agent.Run, Subagent.Run   *)
Turn(a) == <<a, "turn", turn[a]>>
Thought(a) == <<a, "model", turn[a]>>         (* LLM.Thinking, LLM.Action  *)
Tool(t) == <<t, "tool", 0>>

Goes(a, to) == pc' = [pc EXCEPT ![a] = to]

Init ==
  /\ sessions = [c \in Chats |-> 0]
  /\ total = <<>> /\ lock = <<>>
  /\ session = [a \in Agents |-> 0]
  /\ pc = [a \in Agents |-> "idle"]
  /\ turn = [a \in Agents |-> 0]
  /\ usage = [a \in Agents |-> 0]
  /\ loaded = [a \in Agents |-> 0]
  /\ logged = [a \in Agents |-> 0]
  /\ mu = [a \in Agents |-> Nobody]
  /\ seen = [t \in Tools |-> {}]
  /\ children = [s \in {} |-> {}]
  /\ ended = {}
  /\ calledIn = [t \in Tools |-> 0]
  /\ charged = [c \in Chats |-> 0]
  /\ own = [a \in Agents |-> 0]

-----------------------------------------------------------------------------
(* Runs and turns.                                                         *)

(* The tree with a new span under its parent; a root is given as its own.  *)
Grown(tree, parent, s) ==
  [x \in DOMAIN tree \cup {s} |->
     IF x = s THEN {} ELSE IF x = parent THEN tree[x] \cup {s} ELSE tree[x]]

(* SessionManager.GetOrCreate.                                             *)
GetOrCreate(r) ==
  /\ \/ sessions[Chat[r]] # 0 /\ UNCHANGED <<sessions, total, lock>>
     \/ /\ sessions[Chat[r]] = 0
        /\ total' = Append(total, 0) /\ lock' = Append(lock, Nobody)
        /\ sessions' = [sessions EXCEPT ![Chat[r]] = Len(total')]
  /\ session' = [session EXCEPT ![r] = sessions'[Chat[r]]]

StartRun(r) ==
  /\ pc[r] = "idle"
  /\ GetOrCreate(r)
  /\ children' = Grown(children, Whole(r), Whole(r))
  /\ Goes(r, "loop")
  /\ UNCHANGED <<turn, usage, loaded, logged, mu, seen, ended, calledIn, charged, own>>

(* The turn's span, beneath it that of the call of the model, and the call.*)
AskModel(a) ==
  /\ pc[a] = "loop" /\ turn[a] < MaxTurns
  /\ turn' = [turn EXCEPT ![a] = @ + 1]
  /\ children' = Grown(Grown(children, Whole(a), Turn(a)'), Turn(a)', Thought(a)')
  /\ Goes(a, "asking")
  /\ UNCHANGED <<billVars, mu, seen, ended, calledIn>>

(* A sub-agent that has used up its turns.                                 *)
Recall(t) ==
  /\ pc[t] = "loop" /\ t \in Tools /\ turn[t] = MaxTurns
  /\ Goes(t, "over")
  /\ UNCHANGED <<billVars, spanVars, turn>>

ModelFails(a) ==
  /\ pc[a] = "asking"
  /\ ended' = ended \cup {Thought(a), Turn(a)}
  /\ Goes(a, "over")
  /\ UNCHANGED <<billVars, mu, seen, children, calledIn, turn>>

(* The API may also answer without saying what it cost.                    *)
ModelAnswers(a, u) ==
  /\ pc[a] = "asking"
  /\ usage' = [usage EXCEPT ![a] = u]
  /\ Goes(a, IF u = 0 THEN "answered" ELSE "bill")
  /\ UNCHANGED <<sessions, total, lock, session, loaded, logged, charged, own,
                 spanVars, turn>>

-----------------------------------------------------------------------------
(* Session.RecordUsage.                                                    *)

(* Bug: it takes no lock.                                                  *)
LoadUnlocked(a) ==
  /\ pc[a] = "bill"
  /\ loaded' = [loaded EXCEPT ![a] = total[session[a]]]
  /\ Goes(a, "add")
  /\ UNCHANGED <<sessions, total, lock, session, usage, logged, charged, own,
                 spanVars, turn>>

LoadTotal(a) ==
  /\ pc[a] = "bill" /\ lock[session[a]] = Nobody
  /\ lock' = [lock EXCEPT ![session[a]] = a]
  /\ loaded' = [loaded EXCEPT ![a] = total[session[a]]]
  /\ Goes(a, "add")
  /\ UNCHANGED <<sessions, total, session, usage, logged, charged, own,
                 spanVars, turn>>

StoreTotal(a) ==
  /\ pc[a] = "add"
  /\ total' = [total EXCEPT ![session[a]] = loaded[a] + usage[a]]
  /\ lock' = [lock EXCEPT ![session[a]] = Nobody]
  /\ charged' = [charged EXCEPT ![Chat[a]] = @ + usage[a]]
  /\ own' = [own EXCEPT ![a] = @ + usage[a]]
  /\ Goes(a, "log")
  /\ UNCHANGED <<sessions, session, usage, loaded, logged, spanVars, turn>>

(* Bug: the total from before the call is logged.                          *)
LogLoaded(a) ==
  /\ pc[a] = "log"
  /\ logged' = [logged EXCEPT ![a] = loaded[a]]
  /\ Goes(a, "answered")
  /\ UNCHANGED <<sessions, total, lock, session, usage, loaded, charged, own,
                 spanVars, turn>>

(* The tracker reads the total once more, and has no lock.                 *)
LogTotal(a) ==
  /\ pc[a] = "log"
  /\ logged' = [logged EXCEPT ![a] = total[session[a]]]
  /\ Goes(a, "answered")
  /\ UNCHANGED <<sessions, total, lock, session, usage, loaded, charged, own,
                 spanVars, turn>>

-----------------------------------------------------------------------------
(* Tools.                                                                  *)

(* An answer without tool calls ends the run, or the sub-agent.            *)
Answer(a) ==
  /\ pc[a] = "answered"
  /\ ended' = ended \cup {Thought(a), Turn(a)}
  /\ Goes(a, "over")
  /\ UNCHANGED <<billVars, mu, seen, children, calledIn, turn>>

(* One goroutine for each tool call, with the turn's context.              *)
CallTools(a, calls) ==
  /\ pc[a] = "answered"
  /\ calls # {}
  /\ \A t \in calls : Of[t] = a /\ pc[t] = "idle"
  /\ ended' = ended \cup {Thought(a)}
  /\ calledIn' = [t \in Tools |-> IF t \in calls THEN turn[a] ELSE calledIn[t]]
  /\ session' = [t \in Agents |-> IF t \in calls THEN session[a] ELSE session[t]]
  /\ pc' = [t \in Agents |-> IF t \in calls THEN "called"
                             ELSE IF t = a THEN "tools" ELSE pc[t]]
  /\ UNCHANGED <<sessions, total, lock, usage, loaded, logged, charged, own,
                 mu, seen, children, turn>>

(* Bug: StartSpan appends to the parent's children without its lock.       *)
LoadChildrenUnlocked(t) ==
  /\ pc[t] \in {"called", "delegates"}
  /\ seen' = [seen EXCEPT ![t] = children[Turn(Of[t])]]
  /\ Goes(t, IF pc[t] = "called" THEN "links tool" ELSE "links whole")
  /\ UNCHANGED <<billVars, mu, children, ended, calledIn, turn>>

(* StartSpan for the tool call, or for the sub-agent it becomes, appends   *)
(* the new span to the children of the turn ...                            *)
LoadChildren(t) ==
  /\ pc[t] \in {"called", "delegates"} /\ mu[Of[t]] = Nobody
  /\ mu' = [mu EXCEPT ![Of[t]] = t]
  /\ seen' = [seen EXCEPT ![t] = children[Turn(Of[t])]]
  /\ Goes(t, IF pc[t] = "called" THEN "links tool" ELSE "links whole")
  /\ UNCHANGED <<billVars, children, ended, calledIn, turn>>

(* ... in two steps.                                                       *)
StoreChildren(t, s) ==
  /\ mu' = [mu EXCEPT ![Of[t]] = Nobody]
  /\ children' = [x \in DOMAIN children \cup {s} |->
                    IF x = s THEN {}
                    ELSE IF x = Turn(Of[t]) THEN seen[t] \cup {s}
                    ELSE children[x]]
  /\ UNCHANGED <<billVars, seen, ended, calledIn, turn>>

LinkTool(t) ==
  /\ pc[t] = "links tool"
  /\ StoreChildren(t, Tool(t))
  /\ Goes(t, "executes")

LinkWhole(t) ==
  /\ pc[t] = "links whole"
  /\ StoreChildren(t, Whole(t))
  /\ Goes(t, "loop")

(* spawn_subagent, which sub-agents do not have, calls RunSub.             *)
Delegate(t) ==
  /\ pc[t] = "executes" /\ Of[t] \in Runs
  /\ Goes(t, "delegates")
  /\ UNCHANGED <<billVars, spanVars, turn>>

(* Any other tool returns, fails, panics, is refused or is not known.      *)
ToolEnds(t) ==
  /\ pc[t] = "executes"
  /\ ended' = ended \cup {Tool(t)}
  /\ Goes(t, "done")
  /\ UNCHANGED <<billVars, mu, seen, children, calledIn, turn>>

(* All tools of the turn have returned.                                    *)
EndTurn(a) ==
  /\ pc[a] = "tools"
  /\ \A t \in Tools : Of[t] = a => pc[t] \in {"idle", "done"}
  /\ ended' = ended \cup {Turn(a)}
  /\ Goes(a, "loop")
  /\ UNCHANGED <<billVars, mu, seen, children, calledIn, turn>>

(* The deferred calls: a run exports its trace, a sub-agent's tool call is *)
(* over.                                                                   *)
Finish(a) ==
  /\ pc[a] = "over"
  /\ ended' = ended \cup {Whole(a)} \cup (IF a \in Tools THEN {Tool(a)} ELSE {})
  /\ Goes(a, "done")
  /\ UNCHANGED <<billVars, mu, seen, children, calledIn, turn>>

Next ==
  \/ \E r \in Runs : StartRun(r)
  \/ \E a \in Agents :
       \/ AskModel(a) \/ ModelFails(a) \/ \E u \in Usage \cup {0} : ModelAnswers(a, u)
       \/ LoadTotal(a) \/ StoreTotal(a) \/ LogTotal(a)
       \/ Answer(a) \/ \E calls \in SUBSET Tools : CallTools(a, calls)
       \/ EndTurn(a) \/ Finish(a)
  \/ \E t \in Tools :
       LoadChildren(t) \/ LinkTool(t) \/ LinkWhole(t) \/ Delegate(t) \/ ToolEnds(t)
         \/ Recall(t)

Spec == Init /\ [][Next]_vars

-----------------------------------------------------------------------------
(* A chat has one session for good, and its total is what the calls of all *)
(* its runs and of all their sub-agents cost, each counted once, however   *)
(* they overlap.                                                           *)
BillExact ==
  \A c \in Chats :
    charged[c] = IF sessions[c] = 0 THEN 0 ELSE total[sessions[c]]

(* The total that is logged after a call, read without the lock, may count *)
(* calls of others that came after, but counts at least all of the agent's *)
(* own, and nothing that was not billed.                                   *)
LoggedTotalCovers ==
  \A a \in Agents :
    /\ logged[a] <= charged[Chat[a]]
    /\ pc[a] = "answered" /\ usage[a] # 0 => own[a] <= logged[a]

Within(a, r) == a = r \/ (a \in Tools /\ (Of[a] = r \/ (Of[a] \in Tools /\ Of[Of[a]] = r)))

(* The span that another belongs under: a turn under its agent, a call of  *)
(* the model under its turn, and a tool call and the sub-agent it becomes  *)
(* under the turn that made the call.                                      *)
Parent(s) ==
  CASE s[2] = "turn"  -> Whole(s[1])
    [] s[2] = "model" -> <<s[1], "turn", s[3]>>
    [] OTHER          -> <<Of[s[1]], "turn", calledIn[s[1]]>>

(* The trace that a run exports is complete, whichever way it ended: each  *)
(* turn of the run and of its sub-agents, each call of the model and each  *)
(* tool call has a span; every span of theirs has ended; and none was lost *)
(* to a parallel one, for each is a child of the one it belongs under, and *)
(* of no other.                                                            *)
TraceComplete ==
  \A r \in Runs, a \in Agents :
    pc[r] = "done" /\ Within(a, r) =>
      /\ \A n \in 1..turn[a] : {<<a, "turn", n>>, <<a, "model", n>>} \subseteq DOMAIN children
      /\ a \in Tools /\ pc[a] # "idle" => Tool(a) \in DOMAIN children
      /\ \A s \in DOMAIN children :
           s[1] = a =>
             /\ s \in ended
             /\ {p \in DOMAIN children : s \in children[p]} =
                  IF s = Whole(r) THEN {} ELSE {Parent(s)}

=============================================================================
