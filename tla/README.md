# A TLA+ model of golang-harness-agent

This directory is a verification development of the agent harness in this
repository: TLA+ modules that model its concurrent and stateful parts, TLC
configurations that check them on small instances, and TLAPS proofs of what
matters most for every instance. `PROJECT.json` lists, in machine-readable
form, the components, the runs, the lines each definition models, a mutated
definition for every property, the hazards and the theorems.

    tlc -workers 2 -config Approval.cfg MCApproval.tla     # check a run
    tlapm ApprovalProofs.tla                               # check the proofs

## 1. The system

A chat message (Telegram) or a command line (`-p`) starts a *run* of the agent
engine on a *session*. A run repeats turns: it sends the tail of the session's
history to a model, and executes the tool calls the model asks for, in
parallel, through a registry whose middleware may stop a dangerous call until
a human approves it.

| component | state it keeps | operations | what is hard | what makes it correct |
|---|---|---|---|---|
| approval flow (`telegram/approve.go`, middleware in `cmd/agent/main.go`) | `pendingTasks` map, `taskCounter`, a channel per suspended call | `NextTaskID`, `WaitForApproval`, `ResolveApproval` | calls, replies, timeout and cancellation race; replies come late, twice, or after a restart | only approved calls run; no leak; nobody blocks for ever |
| telegram bot (`telegram/bot.go`) | none of its own | `defaultHandler`, `handleAgentRun`, `sendMsg` | a goroutine per message, no order among them | replies are answered, runs do not disturb each other |
| tool registry (`tools/registry.go`) | the map of tools, the middlewares | `Register`, `Use`, `Execute` | panics and unknown names become results | every call yields exactly one result |
| agent loop (`engine/loop.go`) | per run: turn, context, observations | `Run`, `RunSub` | parallel tools behind a barrier, failures in the middle, no limit of turns | the model is sent well-formed histories; a turn completes |
| sessions (`context/session.go`) | `history`, usage | `Append`, `GetWorkingMemory`, `RecordUsage` | a window that cuts turns; several runs on one session | no orphaned tool answer, no unanswered call |
| reminder (`engine/reminder.go`) | `consecutiveFailures`, one map for all runs | `CheckAndInject` | no lock at all | reminders are due when they come |
| background processes (`process/`, `tools/task_*.go`, `tools/bash_background.go`) | tasks, their status, two buffers each | `Spawn`, `Kill`, `KillAll`, `List`, `reap`, `task_logs` | the operating system and goroutines race; signals may be ignored | statuses tell the truth; the limit holds; killed is killed |
| ring buffer (`process/ringbuffer.go`) | `buf`, `total` | `Write`, `String`, `Total` | byte boundaries, reads in between | it is the tail of the stream |
| file tools (`tools/read_file.go`, `write_file.go`, `edit_file.go`, `utils/path.go`) | the files | the three `Execute`, `ResolvePath`, `fuzzyReplace` | read-modify-write without a lock, crash between truncation and write, four fallback levels | the sandbox holds; an edit changes what was meant |
| sub-agent (`tools/subagent.go`, `RunSub`) | a private history | up to ten turns on a registry of its own | recall at the limit | it ends, and returns a report |
| compactor (`context/compactor.go`) | none | `Compact` | lengths | tool calls and the system prompt survive |
| composer and skills (`context/composer.go`, `skill.go`) | none | `Build`, `LoadAll`, `ParseSkillMD` | files and directories that cannot be read, dashes inside a text | one bad skill costs only itself; a frontmatter is read as written |
| recovery (`context/recovery.go`) | none | `AnalyzeAndInject` | it recognises errors by another file's wording | the advice fits what happened |
| bash tool (`tools/bash.go`) | one subprocess | `Execute` with 30 s | children that outlive bash, the end of the context racing bash's own | the report is true; a turn is not blocked |
| providers (`provider/`) | none | `Generate` | two APIs with rules of their own | messages are translated so that each API accepts them |
| MCP client (`mcp/`) | sessions with servers | `Start`, `Close`, adapters | servers that fail or hang at startup | one bad server does not spoil the rest |
| observability (`observability/`) | spans, bills | `StartSpan`, `EndSpan`, `Generate`, `RecordUsage` | parallel children of one span, parallel bills to one session, exits in the middle | every call is billed once; an exported trace is whole |
| benchmark (`eval/`, `cmd/bench`) | results | `RunSuite` | nothing concurrent | - |

The components meet in four ways. The registry calls the approval middleware
synchronously, in the goroutine of a tool call. A reply's handler meets that
goroutine only through the map and the channel. All runs of a chat share its
session, and all runs of all chats share the injector. All tool calls of all
runs share the file system and the process manager, and the agents of a chat
bill to one session and hang their spans into one tree.

The tools for background processes are complete but `cmd/agent/main.go` does
not mount them: `BackgroundTasks` models the library as any caller on several
goroutines may use it.

## 2. The modules

| module | models | lines of code behind it |
|---|---|---|
| `Approval` | the approval flow with the registry and the reply handler around it | `approve.go`, `bot.go`, `registry.go`, `main.go` |
| `HumanGate` | the abstract promise of the approval flow, which `Approval` refines | - |
| `BackgroundTasks` | the process manager, the processes, `task_kill` and `task_logs` | `manager.go`, `task.go`, `task_logs.go` |
| `RingBuffer` | the output buffer and its readers | `ringbuffer.go`, `task_logs.go` |
| `BashTool` | one call of `bash`, with its processes, its pipe and its context | `bash.go` |
| `AgentLoop` | `Run` on the sessions' histories, and `RunSub` | `loop.go`, `session.go`, `message.go`, `bot.go`, `subagent.go` |
| `Dialogue` | what a chat is to its readers; `AgentLoop` refines it | - |
| `Context` | what a request holds: window, compactor, translation for each API | `compactor.go`, `session.go`, `claude.go`, `openai.go`, `loop.go` |
| `Observability` | billing, and the tree of spans | `tracker.go`, `trace.go`, `session.go`, `loop.go`, `registry.go` |
| `McpStartup` | the MCP sessions from `mcp.json` to teardown, and registration | `mcp/*.go`, `main.go`, `bot.go`, `registry.go` |
| `Prompt` | the system prompt and the skills in it, as operators | `composer.go`, `skill.go` |
| `Startup` | composes `McpStartup` and `Prompt`: what an agent starts with | `loop.go` |
| `Reminder` | the injector's unsynchronised map | `reminder.go` |
| `Texts` | texts as sequences of words and white space | Go's `strings` package |
| `FuzzyReplace` | `fuzzyReplace` and `lineByLineReplace` as operators | `edit_file.go` |
| `Recovery` | the advice added to an error, as operators | `recovery.go` |
| `FileTools` | the three tools on the file system, using `FuzzyReplace` and `Recovery` | `read_file.go`, `write_file.go`, `edit_file.go`, `path.go` |
| `MCApproval`, `MCAgentLoop`, `MCObservability`, `MCFileTools`, `MCStartup`, `MCBackgroundTasks` | small instances for TLC | |
| `MCResults` | `FileTools`, `RingBuffer`, `BashTool`, `Reminder` and `Context` side by side in one run | |
| `MCProcesses` | `Startup` and `BackgroundTasks` side by side in one run | |
| `ApprovalProofs`, `AgentLoopProofs`, `ContextProofs`, `ObservabilityProofs` | theorems and proofs about the module they are named after | |
| `ToolProofs` | those about `FileTools` with `FuzzyReplace` and `Recovery`, `RingBuffer`, `BashTool`, `BackgroundTasks` and `Reminder` | |
| `StartupProofs` | those about `McpStartup`, `Prompt` and `Startup` | |
| `TextProofs` | lemmas on texts: lines and joins, cutting out, trimming | |
| `FoldProofs` | induction, and the folds of the community modules | |

Some modules hold operators named as a mistake (`ReturnEarly`, `LoadUnlocked`,
`ParseSkillMDSplit` and others, each under a comment that begins with "Bug:").
They are in no specification: with one of them in place of the right definition
the property that `PROJECT.json` names beside it fails.

### How state and actions correspond to the code

**Approval.** `pc[c]` is the place of a tool call's goroutine. `RouteUnknown`,
`PassThrough` and `NextTaskID` are the three ways through the start of
`Execute`; `Register`, `NoticeArrives`, `Suspend`, then one of `Receive`,
`TimeOut`, `Cancel`, then `CleanUp` are `WaitForApproval`. `CleanUp` is the
deferred delete *and* the registry's reaction, for nothing else can run in
that goroutine between them and nobody reads what it changes. The `select` has
no priority, so `TimeOut` is enabled with a verdict in the channel. A reply is
two steps: `Lookup` under the read lock and `Deliver` after it; `target` is the
channel in hand in between. A channel is named by the call that made it, and
`by[c]` is the reply that woke the call. `about[r]` is what the *human* was
answering: the request of call `about[r]`, whose ticket he copies. `Restart` is
the death of the process and a new one with an empty map and a counter at 0;
the chat, and so `notices`, survives.

**BackgroundTasks.** `leader` is the bash of a task, `forked` the process it
forked, `emitted` counts their writes, `buffered` those that os/exec has moved from the pipe
to the buffer. `Spawn`'s loop over the statuses is one step: only `Spawn` makes a task running and the
manager's lock excludes another one, so the loop can only overestimate. `Wait`
and `Record` are the two halves of `reap`: cmd.Wait reaps bash, and returns when
the pipe is closed and drained. `KillRequest` is what `Kill` does under the
lock, `SigTerm` the signal after it, `GraceOver` the sleep and the reading of
the status, `SigKill` the second signal. A program (trap, stubborn, grouped,
holds) says how the processes of a task react to signals.

**RingBuffer.** One action per method, the mutex makes each atomic; `log` is the
whole stream, kept as a history variable.

**BashTool.** `call` is where `Execute` is, `bash` and `child` are the processes, `ctx`
the context with its 30 seconds, `blamed` whether os/exec found bash not yet reaped
when it killed it for the context, which is what turns even a good exit status
into an error. `Reap`, `WatcherRests` and `CopyOutput` are os/exec's goroutines; `Return`
is the end of `CombinedOutput` and what `Execute` makes of it. Output is counted, so
that text is cut when it is longer than `maxLen`, of a success only. The killing
touches bash alone: whoever else holds the pipe keeps the call waiting.

**AgentLoop.** A message has a kind, its run and turn and an index; contents
are abstracted, and with them the compactor, which changes nothing else and is
the subject of `Context`.
`BeginTurn` copies the window, `Think` and `CallTools` or `Answer` are the two
phases, each of `ToolReturns` is one goroutine's write to its own slot,
`Observe` is the barrier and the single `Append`, `Remind` the injector. With
`Serial` a user waits for a run to end, as the command line makes him do; the
bot does not. A sub-agent `s` is one execution of `spawn_subagent`, with
`history[s]` for RunSub's local contextHistory, which it sends whole; `boss[s]` is
the tool call whose goroutine is inside RunSub. `Delegate` marks that call's
slot, `Report` is the return of the tool, with a report or with the text of an
error: either is the tool's ordinary output. `Delegate` is offered to runs
only, for the registry of a sub-agent has no `spawn_subagent`.

**Dialogue.** The abstraction of the loop. `AgentLoop` maps the history of a session
to `log`, with the calls of a turn that has not been observed yet left out, so
that the calls and all their results appear in one step, whatever the tools did
in between. A run may stop after any step, since providers fail.

**Observability.** An agent is a run or a tool call that became a sub-agent. `LoadTotal`
and `StoreTotal` are the addition in `RecordUsage`, between which the session's
lock is held; `LogTotal` is the tracker's second look, without it. `LoadChildren` and
`StoreChildren` are the append in `StartSpan`, under the mutex of the parent.
Only under a turn's span do spans start in parallel; other spans are linked in
one step. That a sub-agent's span is a child of the turn, not of the tool's span,
is because `Execute` drops the context that `StartSpan` returns to it.

**Context.** One run's view: its history is what `AgentLoop` builds, but here a
message has the lengths of its content and of its calls' arguments, its calls'
ids and the id it answers. `Ask` is the whole of a request's making: window,
system prompt in front, `Compact`. `Claude` and `OpenAI` are the two translations,
as operators on what was sent; a text is a block without an identity. `form`
says what the compactor did to a content, so that a note that happens to have
the length of what it replaced is still told from it.

**McpStartup.** A name is the sequence of its parts between `__`, so
`serverName + "__" + toolName` is concatenation, and the collision of `a__b` + `c`
with `a` + `b__c` is in the model. `NextServer` is the ranging over a Go map, in
any order; `Connected`, `ConnectFails`, `ListPage`, `ListFails` and `Discovered` are
the calls in the body of `Start`'s loop (and of `runMCPList`'s, which closes the
session instead of keeping it). In the mode "print" the run is in main itself
and has waited for its tools; the bot's runs are goroutines that go on.
A bot that cannot be made (`BotFails`) is `log.Fatal`: the process ends without its
deferred calls.

**Prompt** and **Startup.** A SKILL.md is a text of words, of which the dashes, the two
keys and `${SKILL_DIR}` matter. A directory tree is given as what the walk comes
upon, in its order; a "locked" entry is a directory that cannot be listed, at
which the callback returns the error and the walk ends. `Build` is the prompt as a sequence
of sections. `StartRun` takes what the disk holds at that moment; it is offered to
processes without configured servers, for the two parts do not touch each other.

**Reminder.** The increment is `Load` and `Store`. A success replaces the map;
`epoch` tells whether a store goes to the current map. `RaceDetected` is the
runtime's right to end the process; when it does not, the accesses interleave.

**FileTools.** `Open` empties the file and `Write` fills it: the two system
calls of os.WriteFile. A writer's descriptor has its own offset, so of two
writers the longer text shows behind the shorter one (`Overlaid`). `Crash` may
come between any two steps. `ArgumentsFail` is the call whose arguments do not parse.
The workspace is `WorkDir`, as `-workdir` gives it, absolute or relative to `Cwd`:
`Clean`, `Under` and `Place` are `filepath.Clean`, the joining of paths, and the file
to which the operating system takes a path; `FullPath` is `ResolvePath`, which
compares cleaned paths and not places. A text is a sequence of tokens: words, and the
space, carriage return and newline the algorithm treats specially.

**Recovery.** An error is a sequence of phrases, cut where the markers of `recovery.go`
begin and end. The texts are those `FileTools` and `FuzzyReplace` produce, wrapped as
the registry does it.

### What is assumed of the environment

Humans copy the ticket of the request they answer. Task ids and fingerprints
do not collide. There are no symbolic links in the workspace. Process ids are
not reused between reaping and signalling.

## 3. What the runs check

Passing runs:

- **approval** (4 calls of 4 kinds, 2 replies, 1 restart). `ExecutedOnlyIfApproved`,
  `ApprovedAsShown`, `PendingExact`, `FirstReplyKept`, and the liveness
  properties `EverySuspensionEnds` and `EveryReplyAnswered`. `GateSpec` is the
  refinement: the flow implements `HumanGate`, in which there is no ticket, map,
  channel or timer. Two suspended calls and two replies are enough for each
  pair of actors to race (call with reply, reply with reply, call with call);
  the harmless and the unknown call reach the remaining branches of
  `Execute`. One restart lets a ticket be given out twice.
- **agent_loop** (2 runs of one chat one after the other, 2 turns, up to 2 calls,
  a window of 3, thinking on, 1 sub-agent of at most 2 turns). The window is
  shorter than one full turn, so it cuts at every place; it is longer than the
  observations of a turn, without which `SentWellFormed`, which also says that a
  request is never empty, fails (with as many calls as the window is long the
  working memory is empty; 20 calls in one turn in the code). One sub-agent is
  enough to race with the other call of its turn; two turns reach the recall.
  `DialogueSpec` is the refinement of `Dialogue`; `DelegationNested` says that a
  sub-agent lives inside the tool call that made it and is bounded.
- **observability** (2 runs of a chat, one with two parallel tools, either of which may
  become a sub-agent, the first with two tools of its own, which are symmetric; 2
  turns each). The first turn calls tools and the second ends the run, which then
  exports; a sub-agent with a tool for each turn is recalled. Three agents can
  bill at once, and two spans start at once under one turn, of a run or of a
  sub-agent.
- **results**: what tools return and what becomes of it. Five modules that share no
  variable run side by side: one of them moves while the others are as they were
  made, so that the states are the sum of theirs and not the product.
  - `FileTools` (2 calls, a file inside and one outside the workspace, 5 ways to
    name them, 4 contents, 6 edits). Every level of `fuzzyReplace` is needed by one
    of the edits, and refuses another. `AdviceFits` says which advice an error of
    these tools reaches the model with.
  - `RingBuffer` (a buffer of 2, chunks of 0 to 3, 4 bytes in all, a reader). Chunks
    shorter than, equal to and longer than the buffer, and enough bytes to trim twice.
  - `BashTool` (a call that writes up to 3 units, of which 2 may be shown, and forks
    once). `ReportTrue` puts what the model is told beside what the command did, with
    the context's end before, between and after every step of os/exec. `BudgetKept`
    is the liveness of a call: it returns, unless a child holds the pipe. One child
    is enough, since a second one can only hold the pipe as well.
  - `Reminder` (2 runs, 2 fingerprints, threshold 1, 3 checks each). Enough for two
    increments of one counter to race with a success between them and for the
    threshold to be passed.
  - `Context` (a window of 4 behind the system prompt, the last 2 protected, up to 2
    calls a turn, histories of up to 5 messages and the rest of a turn, three
    lengths). The lengths are: nothing, one that is masked when old, one that is
    trimmed when recent. The window is cut in the middle of a turn and leaves a
    whole turn behind it.
- **processes**: the other processes of an agent, in the same way.
  - `Startup` (2 servers, 3 remote and 2 local tools, all three modes; skills of up
    to 4 lines out of 7, or 3 entries of any kind in the directory). The names
    collide in every way they can. Two servers are enough for one to fail before,
    after and between the steps of another. Four lines are an opening and a closing
    delimiter with a line in between and one behind; the lines include a delimiter
    with a carriage return, dashes in a description, and none at all. Three entries
    put a bad one before, between and after good ones.
  - `BackgroundTasks` (2 tasks under a limit of 1, 2 kills, 1 reader, 1 write per
    task). Two tasks compete for one slot, two kills for one task. The two programs
    are the worst: processes that ignore SIGTERM, and a child that leaves the group
    with the pipe open. A second write per task adds states, not interleavings of
    a new kind.

Runs that find a violation: each checks one promise of a comment, message or
document that the code does not keep; `PROJECT.json` quotes it under "findings".

- **approval_confirmation**: a human is told "Approved" about a call that timed out.
- **overlapping_runs**: the second message of a chat sends a tool call without
  its answers to the model.
- **killed_children**: a child of the group that survives `task_kill`.
- **reminder_consecutive** (threshold 3, as in the code, and one run): the
  reminder speaks of four consecutive failures, of which only one was
  consecutive. What does hold of its number is `NudgeExact`.
- **mcp_names**: tool `b__c` of server `a` and tool `c` of server `a__b` have one
  public name, and one of the two is gone, although both servers work.
- **workspace_above**: with `-workdir ..` the path `../f` leads to a file outside
  the workspace. `SandboxKept` says the same of every workspace
  that does not begin with `..`, and holds.
- **ambiguous_advice**: an `old_text` that occurs several times, to the letter or
  once newlines are normalised, is not met with the hint that `recovery.go` has for it.

### What the code does and no run refutes

Behaviours of the models, found while reading the code, that fall short of a comment or
of what one would expect, without a run of their own:

- A failing command does not count for the reminder, for `bash` returns its
  failures without an error, and so it resets the counters.
- The log of an exited task may lack its last output (`manager.go:83`), because
  `task_logs` reads the buffers before the status.
- Two parallel edits of one file may both succeed and one be lost. Nothing in the
  repository says otherwise.
- A call of `bash` outlives its 30 seconds when a process in the background holds its
  output. The output of a failing command is not cut at 8000 bytes.
- With `-workdir .` or `-workdir /` the file tools refuse every path beneath the
  workspace, since `ResolvePath` looks for the prefix `./` or `//`; with any relative
  workspace they refuse absolute paths into it.
- An `old_text` that is ambiguous only at a normalised level may be replaced at
  one place by a later level that takes whole lines.
- The advice for `bash` (`recovery.go`) is never given: its failures carry no error.
- The span of a sub-agent hangs under the turn and not under its tool call, as
  `loop.go:226` has it.
- `log.Fatal` in `NewTelegramBot` leaves the MCP sessions open that `main.go` says must be
  closed at shutdown.
- A directory under `.agent/skills` that cannot be listed silently drops all skills
  behind it (`skill.go:51`). Three dashes inside a description end a frontmatter.
- Runs of the bot have `context.Background()`, so that waiting for an approval is never
  cancelled there; only its timeout ends it.
- In the benchmark the cost of a case that crashed is not in the totals, and the
  `MaxTurns` of a case is not used. Traces are named by the second, and two of one
  second overwrite each other.

Deadlock is not checked, because every system here stops of its own accord once
its finitely many calls are over; that nobody is left blocked is a matter of
the liveness properties.

### Fairness

`Approval!Fairness`: a goroutine that can take its next step does, timers fire,
and the HTTP client returns from sending a message, with or without an error.
No human is obliged to reply and no tool to return.
`BackgroundTasks!Fairness`: the goroutines of the manager and of os/exec run; no
process is obliged to exit, write or fork. `AgentLoop!Fairness`: the loop goes
on when it can; no user, model or tool is obliged to anything, since not even
the bash tool's timeout releases a call whose children hold its pipe.
`BashTool!BashFairness`: time passes, so the context ends; the kernel kills what it
is told to, and the goroutines of os/exec run. Nothing is assumed of the command.
`Observability`, `Startup` and the others state no liveness and no fairness.
All are weak fairness: none of these steps is disabled and enabled again by
others for ever.

## 4. What is proved

Every safety property and every action property that a passing run checks is
also a theorem, for every value of the constants; so are both refinements.

### Assumptions

Proofs rest on the assumptions the modules name, which TLC evaluates on every
run. Most say only that markers for "nothing" are not members of the sets they
mark and that bounds are numbers. The others:

| assumption | says | because |
|---|---|---|
| `BackgroundAssumption` | there are finitely many tasks | a process starts finitely many |
| `ContextAssumption` | no more messages are protected than the window holds | 6 and 20 in the code |
| `McpAssumption` | a local tool's name has no `__` in it | so are the names in `tools/` |
| `ObservabilityAssumption` | a tool call is in the chat of the agent that made it | a context carries one session |
| `WordsAssumption` | a word is not white space | by the meaning of a word |
| `FilesAssumption` | an edit's texts are texts; `WorkDir` and the inputs are paths; `Cwd` has no `..` in it | the types of the code; a process's directory is absolute and clean |
| `PathsAssumption` | what an input resolves to is one of the places modelled | it names the files there are to look at |
| `DisksAssumption` | what the walk comes upon is a finite sequence; a skill's file is a text, a directory has at most one of the name `SKILL.md`, and its path is not white space | `filepath.WalkDir`, and file systems |

Some theorems have hypotheses of their own, each the negation of something the
code does not enforce. `Serial`, that the prompts of one chat wait for each
other, is how the command line behaves; the run *overlapping_runs* shows what happens in
the bot, which does not. `MaxCalls < Limit`, that a turn has fewer calls than the
window has messages (20), is needed because nothing bounds the calls of an
answer: with 20 or more the window holds only answers, drops them as orphans and is empty.
`Descends`, in `SandboxKept`, says that a relative workspace does not begin with `..`, for
which *workspace_above* shows what happens. `InsideIsResolved` asks for an absolute
workspace other than `/`; of the others see the list in section 3.

### Theorems

- **ApprovalProofs**: `TypeCorrect`, `ApprovalRequired`, `ApprovalMatches`,
  `NoLeakNoLoss`, `FirstReplyWins`, `ImplementsGate`. None of the invariants is
  inductive alone. The strengthening says that tickets of living calls differ
  and are at most the counter, that the map is exactly the suspended calls, that
  a reply on its way carries the ticket of the call whose channel it holds, and
  that without a restart it is that very call's own request. An entry of the
  map thus identifies its call, and deleting by ticket deletes nobody else's.
  `ImplementsGate` maps every step to a step of `HumanGate` or to a stutter.
- **AgentLoopProofs**: `TypeCorrect`, `IsolationHolds`, `DelegationHolds`,
  `RestingHolds`, `SentHolds`, `DialogueHolds`. The inductive invariant has five parts: types;
  who owns which history (`OwnInv`: a sub-agent's is its own, and it sits in a
  slot of its boss that is marked for it and for nobody else); how many turns each has
  had (`TurnsInv`); that of a chat's runs at most one is active, under `Serial`
  (`SoleInv`); and what a history looks like at each place of the loop (`HistoryInv`):
  every call is followed by its observations, but for the last while its tools
  run. `SentHolds` then needs that a window which begins with no observation cannot cut
  between a call and its answers: a message in the place of an answer *is* one, so
  that the window would have begun behind it. `DialogueHolds` is the refinement of `Dialogue`, action by action.
- **ContextProofs**: `TypeCorrect`, `EvidenceSurvives`, `OutputsBound`,
  `RequestsAccepted`. The window of a history is a part of it, and compaction keeps
  every message's place, role and calls. `OutputsBound` adds up what each message may
  contribute, along the fold that adds up their lengths. `RequestsAccepted`, for both
  providers: `LinkInv` says that the k-th call of a message is answered by the
  k-th message behind it, that ids are unique, and that who answers follows whom he answers;
  neither the window, nor the system prompt in front, nor the compaction moves an
  answer away from its call (`SuffixLinked`, `RequestLinked`); and in the blocks of a
  translation, laid end to end, each use stands before its result with no text in between
  (`BlocksArePaired`, `PairedAreWell`).
- **ObservabilityProofs**: `NoBillLost`, `LogCovers`, `TraceHolds`, for any number of agents and chats. An
  agent between load and store is the holder of its session's lock, so that what it
  loaded is still the total; sessions in use are distinct and each agent at work has
  the one of its chat, so that a bill changes no other chat's total. Whoever
  has finished a bill finds it in the total he reads without the lock. For the
  trace, `TraceInv` says that spans are numbered by their making and the parent of
  each is an older one that has not ended, that a span between its making and its linking is
  in the hands of its maker alone, that whoever links holds the parent's mutex and what he
  loaded is still its list, and that calls are nested in their agents' spans; that every turn
  begun, with its call of the model, and every tool call under way has a span (`SpansThere`);
  that the turn which made a call goes on while the call works (`CalledNow`); and that a span is
  among the children of the one it belongs under and of no other (`Linked`). So at the
  export the tree holds a span for each turn, call of a model and tool call, where it belongs, and all have ended.
- **ToolProofs**, about
  - the background tasks: `ManagerTypeCorrect`, `LimitHolds`, `EndedIsTrue`,
    `KillIsReported`. The link is that a process exists only while its status is
    "running", so counting statuses bounds processes; and that a noted kill is
    never forgotten while its Kill is under way;
  - the ring buffer: `RingTypeCorrect`, `TailKept`, `ReportConsistent`, by a lemma that
    trimming a tail extended by a chunk gives the tail of the extended stream;
  - the bash tool: `BashReportTrue`: once a call has returned, nothing is left
    that could write to its pipe or change bash's status, so what was reported stays true;
  - the reminder: `ReminderTypeCorrect`, `NoPhantoms`, `NudgesExact`. Increments under
    way are part of the count: a load from the current map is bounded by the
    increments begun before it. Of a run alone, the counter is the number of failures of that
    call since its last success, which is at least the streak and equal to it if nothing else
    failed (`SoleNudge`, `StreakInv`);
  - the file tools: `SandboxHolds` (a cleaned workspace without a leading `..`, a cleaned path
    of which it is a prefix, and so the place of the one a prefix of the place of the other;
    and only what `ResolvePath` let through is opened), `InsideIsResolved` (and with an absolute
    workspace it lets everything inside through), `FileTypesHold`,
    `AmbiguousHolds`, `SoleWriterHolds`, `EditsAreLocal`, `AdviceHolds`. The inductive
    invariant `FilesInv` adds to the types that what an edit is going to write, or
    what its error says, is what `fuzzyReplace` made of what it *saw* (`CallsInv`), and
    that an open file was emptied by its opener and still is if nobody else came near
    it (`OpenInv`). The rest is about the algorithm, for all texts: `Joined` undoes `Lines`;
    squashing white space distributes over concatenation, so that text which is
    equal but for white space has equal words; each of the four levels replaces one region
    that is the old text but for white space, and keeps everything before and behind it.
- **StartupProofs**: about `McpStartup` `TypeCorrect`, `NoSessionLeaks`, `Resilience`, `PrintWaits`.
  Besides the sessions the invariant says that a server being set up is neither
  kept nor still to do, that each server of the file is accounted for, and which
  tools the registry holds after each of them; a public name is never a local
  one, having two parts at least, and of servers' tools only those that share their
  public name with another can get lost. `SessionsAccounted` excepts a process whose bot could
  not be made, which leaves its sessions open. `StartupKeepsServers` says that the
  composition implements `McpStartup`, so that all of this holds of it too. About
  `Prompt`, `SkillsSurvive`: along the walk there is an increasing map from the skills in the prompt
  to the readable files, onto those before the first locked directory; and
  `FrontmatterHolds`, about what the code cuts at any three dashes and a reader cuts
  at lines. Where no delimiter stands within a line of the head, the two cuts differ by the
  remnants of the delimiters' own lines, which hold no key, so that both rules see the same
  fields (`FramedFile`, `DescribedByLines`); a head that opens with no delimiter, or is never
  closed, is instructions to both (`PlainFile`). Trimming commutes with putting the directory
  in the place of `${SKILL_DIR}` (`TrimWithDir`), and what is left of a text behind a delimiter is still
  its end (`NothingCutOff`), for any lines whatever.

**FoldProofs** is what makes statements about sequences of any length provable. The
library's induction theorems cannot be used here, so it derives induction from
the least member of a set of numbers, and, for sequences, induction over a set closed
under `Append`. The folds of the community modules are a CHOOSE over recursive functions;
`FoldExists` shows that there is one, after which each fold the models use
(`EstimateFold`, `LinesFold`, `WalkFold`, ...) is the last member of a sequence that goes
on step by step. `SelectSeq` and `FlattenSeq` stay opaque to the prover, so the
models use folds in their place. **TextProofs** builds on it: `Joined` undoes `Lines` and
`Lines` undoes `Joined`, a part cut out of a text is a text, and `TrimSpace` keeps one span, which
begins and ends with a word, or nothing.

### Only model-checked

All liveness (`BudgetKept`, `TurnCompletes`, `EverySuspensionEnds`,
`EveryReplyAnswered`, `KillEnds`), which is out of the prover's reach, as is ENABLED.

## 5. Not modelled, and why

The benchmark runner is a strictly sequential loop over test cases without shared
state; the engine it starts is the one modelled here. The workflow under
`.github` is not the program. The providers' translation of tool definitions, the
MCP transports and the flattening of MCP results change representations only.
The printing reporters and the bot's progress messages are output. The file of
a trace is written once and never read by the program; durations, prices and
attributes are numbers nobody acts on.

## 6. Plan

Done, in this order because an unapproved dangerous call would be the worst the
system can do, then what is lost or left running unnoticed, then what the model
is told: Approval with HumanGate; BackgroundTasks and RingBuffer; AgentLoop with
sub-agents; Reminder; FuzzyReplace and FileTools; Context and McpStartup;
BashTool and Observability; Recovery; Prompt and its composition with McpStartup;
Dialogue and the refinement from AgentLoop; and the proofs of all of them.

Next: the composition of Approval and AgentLoop, with the middleware inside a turn, and
the sub-agent's registry, which has none.
