----------------------------- MODULE AgentLoop ------------------------------
(***************************************************************************)
(* The ReAct loop of AgentEngine.Run over the histories of chat sessions,  *)
(* and the smaller loop RunSub of the sub-agents that its tool calls start.*)
(*                                                                         *)
(* Every user message starts a run of its own on the session of its chat.  *)
(* A run repeats turns: it copies the tail of the history, asks the model  *)
(* (first to think, if so configured), appends the answer, executes the    *)
(* requested tools in parallel, appends their observations in one Append   *)
(* and lets the reminder injector add a message.  Append and               *)
(* GetWorkingMemory hold the session's lock; nothing holds it in between.  *)
(*                                                                         *)
(* A sub-agent is a run with a history of its own, which it sends whole.   *)
(* It does not think, is not reminded, and is recalled after MaxSubTurns.  *)
(* The tool call that started it returns when it is over.                  *)
(*                                                                         *)
(* A message is a record: k is the number of calls of a "call", the index  *)
(* of an "obs" and 0 in the others.  The injector may speak after any turn *)
(* whose first call failed; when it does is the subject of Reminder.  The  *)
(* compactor changes only contents, which are the subject of Context.      *)
(***************************************************************************)
EXTENDS Naturals, Sequences, FiniteSets

CONSTANTS
  Runs,      (* user messages, each of which starts a run                *)
  Subs,      (* executions of spawn_subagent, each of which calls RunSub *)
  Sessions,  (* chats                                                    *)
  Chat,      (* Chat[r] is the session of run r                          *)
  Limit,     (* size of the working memory, 20 in the code               *)
  MaxCalls,  (* bounds the tool calls of one turn                        *)
  MaxTurns,  (* bounds the turns of one run, which the code does not     *)
  MaxSubTurns, (* maxSubTurns, 10 in the code                            *)
  NoCall,    (* a sub-agent that works for no tool call                  *)
  Thinking,  (* EnableThinking                                           *)
  Serial     (* whether users wait for a run to end, as the CLI does     *)

ASSUME LoopAssumption ==
  /\ Chat \in [Runs -> Sessions]
  /\ (Runs \cup Sessions) \cap Subs = {}
  /\ Limit \in Nat \ {0}
  /\ MaxCalls \in Nat
  /\ MaxTurns \in Nat
  /\ MaxSubTurns \in Nat
  /\ NoCall \notin Runs \X Nat
  /\ Thinking \in BOOLEAN
  /\ Serial \in BOOLEAN

VARIABLES
  history,  (* Session.history, and contextHistory of each sub-agent      *)
  pc,       (* where each run is                                          *)
  turn,     (* turnCount                                                  *)
  context,  (* contextHistory without the system prompt                   *)
  slots,    (* observationMsgs: how the tool calls of the turn stand      *)
  boss      (* the tool call, <<run, index>>, each sub-agent works for    *)

vars == <<history, pc, turn, context, slots, boss>>

-----------------------------------------------------------------------------
Kinds == {"user", "think", "call", "answer", "obs", "reminder"}

All == Runs \cup Subs

Message == [kind : Kinds, run : All, turn : Nat, k : Nat]

Msg(r, kind, k) == [kind |-> kind, run |-> r, turn |-> turn[r], k |-> k]

Active(r) == pc[r] \notin {"idle", "done", "failed"}

Home(r) == IF r \in Subs THEN r ELSE Chat[r]

Append1(r, m) == history' = [history EXCEPT ![Home(r)] = Append(@, m)]

Returned(r) == \A i \in DOMAIN slots[r] : slots[r][i] \in {"ok", "error"}

Observations(r) == [i \in DOMAIN slots[r] |-> Msg(r, "obs", i)]

(* The first element of s that is not an observation, and all after it.    *)
DropOrphans(s) ==
  LET kept == {i \in 1..Len(s) : \E j \in 1..i : s[j].kind # "obs"}
  IN  IF kept = {} THEN <<>>
      ELSE SubSeq(s, CHOOSE i \in kept : \A j \in kept : i <= j, Len(s))

(* Bug: the tail is cut and its orphans are kept.                          *)
RawTail(h) ==
  IF Len(h) <= Limit THEN h ELSE SubSeq(h, Len(h) - Limit + 1, Len(h))

(* Session.GetWorkingMemory(Limit).                                        *)
WorkingMemory(h) ==
  IF Len(h) <= Limit THEN h
  ELSE DropOrphans(SubSeq(h, Len(h) - Limit + 1, Len(h)))

Init ==
  /\ history = [h \in Sessions \cup Subs |-> <<>>]
  /\ pc = [r \in All |-> "idle"]
  /\ turn = [r \in All |-> 0]
  /\ context = [r \in All |-> <<>>]
  /\ slots = [r \in All |-> <<>>]
  /\ boss = [s \in Subs |-> NoCall]

-----------------------------------------------------------------------------
(* handleAgentRun (or runPrint) appends the prompt and calls Run.          *)
UserMessage(r) ==
  /\ pc[r] = "idle"
  /\ Serial => \A q \in Runs : Chat[q] = Chat[r] => ~Active(q)
  /\ Append1(r, Msg(r, "user", 0))
  /\ pc' = [pc EXCEPT ![r] = "loop"]
  /\ UNCHANGED <<turn, context, slots, boss>>

BeginTurn(r) ==
  /\ pc[r] = "loop"
  /\ turn' = [turn EXCEPT ![r] = @ + 1]
  /\ context' = [context EXCEPT ![r] = WorkingMemory(history[Chat[r]])]
  /\ pc' = [pc EXCEPT ![r] = IF Thinking THEN "think" ELSE "act"]
  /\ UNCHANGED <<history, slots, boss>>

(* Phase 1 without tools; empty thoughts are not kept.                     *)
Think(r) ==
  /\ pc[r] = "think"
  /\ pc' = [pc EXCEPT ![r] = "act"]
  /\ \/ /\ Append1(r, Msg(r, "think", 0))
        /\ context' = [context EXCEPT ![r] = Append(@, Msg(r, "think", 0))]
     \/ UNCHANGED <<history, context>>
  /\ UNCHANGED <<turn, slots, boss>>

(* The provider fails in either phase and Run returns the error.           *)
GenerateFails(r) ==
  /\ pc[r] \in {"think", "act"}
  /\ pc' = [pc EXCEPT ![r] = "failed"]
  /\ UNCHANGED <<history, turn, context, slots, boss>>

(* Phase 2: an answer without tool calls ends the run.                     *)
Answer(r) ==
  /\ pc[r] = "act"
  /\ Append1(r, Msg(r, "answer", 0))
  /\ pc' = [pc EXCEPT ![r] = "done"]
  /\ UNCHANGED <<turn, context, slots, boss>>

(* Bug: the assistant message with the calls is not persisted.             *)
CallToolsUnsaved(r, n) ==
  /\ pc[r] = "act" /\ turn[r] < MaxTurns
  /\ slots' = [slots EXCEPT ![r] = [i \in 1..n |-> "running"]]
  /\ pc' = [pc EXCEPT ![r] = "tools"]
  /\ UNCHANGED <<history, turn, context, boss>>

(* Phase 2: n tool calls are started, each in a goroutine.                 *)
CallTools(r, n) ==
  /\ pc[r] = "act"
  /\ turn[r] < MaxTurns
  /\ Append1(r, Msg(r, "call", n))
  /\ slots' = [slots EXCEPT ![r] = [i \in 1..n |-> "running"]]
  /\ pc' = [pc EXCEPT ![r] = "tools"]
  /\ UNCHANGED <<turn, context, boss>>

(* A goroutine writes its own slot; errors and panics are results too.     *)
ToolReturns(r, i, res) ==
  /\ pc[r] = "tools"
  /\ slots[r][i] = "running"
  /\ slots' = [slots EXCEPT ![r][i] = res]
  /\ UNCHANGED <<history, pc, turn, context, boss>>

(* Bug: observations are appended only if every tool succeeded.            *)
ObserveSuccess(r) ==
  /\ pc[r] = "tools"
  /\ Returned(r)
  /\ history' = [history EXCEPT ![Chat[r]] =
                   IF \E i \in DOMAIN slots[r] : slots[r][i] = "error" THEN @
                   ELSE @ \o Observations(r)]
  /\ pc' = [pc EXCEPT ![r] = "remind"]
  /\ UNCHANGED <<turn, context, slots, boss>>

(* Bug: a tool that fails does not reach wg.Done.                          *)
ObserveAllOk(r) ==
  /\ pc[r] = "tools"
  /\ \A i \in DOMAIN slots[r] : slots[r][i] = "ok"
  /\ history' = [history EXCEPT ![Chat[r]] = @ \o Observations(r)]
  /\ pc' = [pc EXCEPT ![r] = "remind"]
  /\ UNCHANGED <<turn, context, slots, boss>>

(* wg.Wait, then all observations in one Append, in the order of the calls.*)
Observe(r) ==
  /\ pc[r] = "tools"
  /\ Returned(r)
  /\ history' = [history EXCEPT ![Chat[r]] = @ \o Observations(r)]
  /\ pc' = [pc EXCEPT ![r] = "remind"]
  /\ UNCHANGED <<turn, context, slots, boss>>

(* CheckAndInject looks at the first call of the turn.                     *)
Remind(r) ==
  /\ pc[r] = "remind"
  /\ \/ slots[r][1] = "error" /\ Append1(r, Msg(r, "reminder", 0))
     \/ UNCHANGED history
  /\ pc' = [pc EXCEPT ![r] = "loop"]
  /\ UNCHANGED <<turn, context, slots, boss>>

ToolStep(r) ==
  \E i \in DOMAIN slots[r], res \in {"ok", "error"} : ToolReturns(r, i, res)

-----------------------------------------------------------------------------
(* Sub-agents.                                                             *)

(* Bug: the tool returns at once and the sub-agent goes on by itself.      *)
DelegateAndForget(s, r, i) ==
  /\ pc[s] = "idle" /\ pc[r] = "tools" /\ slots[r][i] = "running"
  /\ slots' = [slots EXCEPT ![r][i] = "ok"]
  /\ boss' = [boss EXCEPT ![s] = <<r, i>>]
  /\ pc' = [pc EXCEPT ![s] = "loop"]
  /\ Append1(s, Msg(s, "user", 0))
  /\ UNCHANGED <<turn, context>>

(* spawn_subagent is executed, as the i-th call of the turn of run r, and  *)
(* calls RunSub, which starts from the task prompt.                        *)
Delegate(s, r, i) ==
  /\ pc[s] = "idle"
  /\ pc[r] = "tools"
  /\ slots[r][i] = "running"
  /\ slots' = [slots EXCEPT ![r][i] = "delegated"]
  /\ boss' = [boss EXCEPT ![s] = <<r, i>>]
  /\ pc' = [pc EXCEPT ![s] = "loop"]
  /\ Append1(s, Msg(s, "user", 0))
  /\ UNCHANGED <<turn, context>>

(* The next turn, if there is one left, or the recall.                     *)
BeginSubTurn(s) ==
  /\ pc[s] = "loop"
  /\ turn' = [turn EXCEPT ![s] = @ + 1]
  /\ \/ /\ turn'[s] <= MaxSubTurns
        /\ context' = [context EXCEPT ![s] = history[s]]
        /\ pc' = [pc EXCEPT ![s] = "act"]
     \/ /\ turn'[s] > MaxSubTurns
        /\ pc' = [pc EXCEPT ![s] = "failed"]
        /\ UNCHANGED context
  /\ UNCHANGED <<history, slots, boss>>

SubGenerateFails(s) ==
  /\ pc[s] = "act"
  /\ pc' = [pc EXCEPT ![s] = "failed"]
  /\ UNCHANGED <<history, turn, context, slots, boss>>

(* An answer without tool calls is the report.                             *)
SubAnswer(s) ==
  /\ pc[s] = "act"
  /\ Append1(s, Msg(s, "answer", 0))
  /\ pc' = [pc EXCEPT ![s] = "done"]
  /\ UNCHANGED <<turn, context, slots, boss>>

SubCallTools(s, n) ==
  /\ pc[s] = "act"
  /\ Append1(s, Msg(s, "call", n))
  /\ slots' = [slots EXCEPT ![s] = [i \in 1..n |-> "running"]]
  /\ pc' = [pc EXCEPT ![s] = "tools"]
  /\ UNCHANGED <<turn, context, boss>>

(* Its registry holds read_file and bash only.                             *)
SubToolStep(s) == ToolStep(s)

(* Bug: the observations go to the session of the run that delegated.      *)
SubObserveShared(s) ==
  /\ pc[s] = "tools" /\ Returned(s)
  /\ history' = [history EXCEPT ![Chat[boss[s][1]]] = @ \o Observations(s)]
  /\ pc' = [pc EXCEPT ![s] = "loop"]
  /\ UNCHANGED <<turn, context, slots, boss>>

SubObserve(s) ==
  /\ pc[s] = "tools"
  /\ Returned(s)
  /\ history' = [history EXCEPT ![s] = @ \o Observations(s)]
  /\ pc' = [pc EXCEPT ![s] = "loop"]
  /\ UNCHANGED <<turn, context, slots, boss>>

(* RunSub returned: a report or an error, either is the tool's output and  *)
(* no failure of the call.                                                 *)
Report(s) ==
  /\ pc[s] \in {"done", "failed"}
  /\ boss[s] # NoCall
  /\ slots' = [slots EXCEPT ![boss[s][1]][boss[s][2]] = "ok"]
  /\ boss' = [boss EXCEPT ![s] = NoCall]
  /\ UNCHANGED <<history, pc, turn, context>>

RunStep(r) ==
  \/ UserMessage(r) \/ BeginTurn(r) \/ Think(r) \/ GenerateFails(r)
  \/ Answer(r)
  \/ \E n \in 1..MaxCalls : CallTools(r, n)
  \/ ToolStep(r) \/ Observe(r) \/ Remind(r)

SubStep(s) ==
  \/ \E r \in Runs : \E i \in DOMAIN slots[r] : Delegate(s, r, i)
  \/ BeginSubTurn(s) \/ SubGenerateFails(s) \/ SubAnswer(s)
  \/ \E n \in 1..MaxCalls : SubCallTools(s, n)
  \/ SubToolStep(s) \/ SubObserve(s) \/ Report(s)

Next ==
  \/ \E r \in Runs : RunStep(r)
  \/ \E s \in Subs : SubStep(s)

Spec == Init /\ [][Next]_vars

(* The loops go on; nothing is assumed of users, models and tools: a bash  *)
(* command whose child keeps the output pipe outlives its timeout.         *)
Fairness ==
  /\ \A r \in Runs : WF_vars(Observe(r)) /\ WF_vars(Remind(r) \/ BeginTurn(r))
  /\ \A s \in Subs : WF_vars(SubObserve(s) \/ BeginSubTurn(s) \/ Report(s))

FairSpec == Spec /\ Fairness

-----------------------------------------------------------------------------
(* Types; a turn at its tools has a slot for each call it requested.       *)
TypeOK ==
  /\ history \in [Sessions \cup Subs -> Seq(Message)]
  /\ pc \in [All -> {"idle", "loop", "think", "act", "tools", "remind", "done", "failed"}]
  /\ turn \in [All -> Nat]
  /\ context \in [All -> Seq(Message)]
  /\ slots \in [All -> Seq({"running", "delegated", "ok", "error"})]
  /\ \A r \in All : pc[r] \in {"tools", "remind"} => slots[r] # <<>>
  /\ boss \in [Subs -> (Runs \X Nat) \cup {NoCall}]

(* m is the k-th observation of the turn that made the calls c.            *)
Observes(m, c, k) ==
  /\ m.kind = "obs" /\ m.k = k
  /\ c.kind = "call" /\ k <= c.k
  /\ m.run = c.run /\ m.turn = c.turn

(* What the model's API accepts: each observation follows its call with    *)
(* only earlier observations of the same call between the two.             *)
NoOrphans(w) ==
  \A i \in 1..Len(w) :
    w[i].kind = "obs" => w[i].k < i /\ Observes(w[i], w[i - w[i].k], w[i].k)

(* And each call is followed at once by all its observations, in order.    *)
AllObserved(w) ==
  \A i \in 1..Len(w) :
    w[i].kind = "call" =>
      \A k \in 1..w[i].k : i + k <= Len(w) /\ Observes(w[i + k], w[i], k)

WellFormed(w) == NoOrphans(w) /\ AllObserved(w)

(* Whenever a run asks the model, the tail of the history it sends, cut at *)
(* the working memory's limit, is well formed: no tool answer without its  *)
(* call, no call without its answers, nothing in between; and some of it   *)
(* is left.                                                                *)
SentWellFormed ==
  \A r \in All :
    pc[r] \in {"think", "act"} => context[r] # <<>> /\ WellFormed(context[r])

(* A run that ended, or failed in the middle, leaves a history on which    *)
(* the next run of the chat can build.                                     *)
RestingWellFormed ==
  \A s \in Sessions :
    (\A r \in Runs : Chat[r] = s => ~Active(r)) => WellFormed(history[s])

(* loop.go calls a sub-agent "physically isolated": it is sent only what   *)
(* belongs to it, and none of its messages gets into a chat.               *)
Isolated ==
  /\ \A s \in Subs : \A i \in DOMAIN context[s] : context[s][i].run = s
  /\ \A h \in Sessions : \A i \in DOMAIN history[h] : history[h][i].run \notin Subs

(* A tool call that delegates and its sub-agent belong together: as long   *)
(* as the sub-agent is at work the turn that started it waits for it, and  *)
(* a turn never waits for a sub-agent that is not there.  It does not wait *)
(* for ever: a sub-agent gets no more than MaxSubTurns answers of the      *)
(* model before it is recalled.                                            *)
DelegationNested ==
  /\ \A s \in Subs :
       /\ Active(s) => boss[s] # NoCall
       /\ boss[s] # NoCall =>
            /\ pc[boss[s][1]] = "tools"
            /\ slots[boss[s][1]][boss[s][2]] = "delegated"
       /\ Cardinality({i \in DOMAIN history[s] :
                         history[s][i].kind \in {"call", "answer"}}) <= MaxSubTurns
  /\ \A r \in Runs : \A i \in DOMAIN slots[r] :
       slots[r][i] = "delegated" => \E s \in Subs : boss[s] = <<r, i>>

(* A turn all of whose tools have returned, in whatever order and with     *)
(* whatever results, is never held up: the model is asked again, unless a  *)
(* sub-agent is recalled for its many turns.                               *)
TurnCompletes ==
  \A r \in All :
    (pc[r] = "tools" /\ Returned(r))
      ~> \/ pc[r] \in {"think", "act"}
         \/ r \in Subs /\ turn[r] > MaxSubTurns /\ pc[r] = "failed"

-----------------------------------------------------------------------------
(* The history of a chat without a call whose results are not there yet.   *)
Settled(s) ==
  LET h == history[s]
      n == IF \E r \in Runs : Chat[r] = s /\ pc[r] = "tools" THEN Len(h) - 1 ELSE Len(h)
  IN  [i \in 1..n |-> [kind |-> h[i].kind, run |-> h[i].run, k |-> h[i].k]]

Talk == INSTANCE Dialogue WITH log <- [s \in Sessions |-> Settled(s)]

(* However tools, sub-agents, thoughts, reminders and failures interleave, *)
(* a chat whose prompts wait for each other grows by whole turns: calls    *)
(* and their results as if in one step, a reminder only after results, and *)
(* nothing after an answer but the next prompt.                            *)
DialogueSpec == Talk!Spec

=============================================================================
