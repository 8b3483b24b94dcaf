----------------------------- MODULE McpStartup -----------------------------
(***************************************************************************)
(* The MCP connections of one process: mcp.json is loaded, each server in  *)
(* it is connected and asked for its tools, which join the local ones in   *)
(* the registry; the sessions are closed at the end.                       *)
(*                                                                         *)
(* A name is the sequence of its parts between "__", so that joining a     *)
(* server's name and a tool's with "__" is \o.                             *)
(***************************************************************************)
EXTENDS Naturals, Sequences

CONSTANTS
  Servers,   (* names a server may have in mcp.json                       *)
  Remotes,   (* names of the tools of servers                             *)
  Locals,    (* names of the local tools                                  *)
  Nobody     (* no server                                                 *)

ASSUME McpAssumption ==
  /\ \A n \in Servers \cup Remotes : n \in Seq(STRING) \ {<<>>}
  /\ \A n \in Locals : n \in Seq(STRING) /\ Len(n) = 1
  /\ Nobody \notin Servers

VARIABLES
  mode,      (* how the process was started: Telegram bot, -p, or -mcp-list *)
  entries,   (* what mcp.json says of each server                         *)
  phase,     (* where main is                                             *)
  todo,      (* servers whose turn in the loop has not come               *)
  at,        (* the server whose turn it is                               *)
  session,   (* the session with each server                              *)
  listed,    (* the tools each server has told of                         *)
  kept,      (* Manager.sessions                                          *)
  skipped,   (* servers logged as skipped                                 *)
  tools,     (* registryImpl.tools: a name's tool, as its owner and name  *)
  calls      (* tools that are executing                                  *)

vars == <<mode, entries, phase, todo, at, session, listed,
          kept, skipped, tools, calls>>

Here == <<"here">>   (* the owner of local tools *)

LocalTools == [n \in Locals |-> <<Here, n>>]

Configured == {s \in Servers : entries[s] # "absent"}

Init ==
  /\ mode \in {"telegram", "print", "list"}
  /\ entries \in [Servers -> {"absent", "valid", "invalid"}]
  /\ phase = "load"
  /\ todo = {} /\ at = Nobody
  /\ session = [s \in Servers |-> "none"]
  /\ listed = [s \in Servers |-> {}]
  /\ kept = {} /\ skipped = {}
  /\ tools = IF mode = "list" THEN <<>> ELSE LocalTools
  /\ calls = {}

-----------------------------------------------------------------------------
(* A missing file has no entries; one invalid entry refuses the file.      *)
LoadConfig ==
  /\ phase = "load"
  /\ \A s \in Servers : entries[s] # "invalid"
  /\ todo' = Configured
  /\ phase' = "start"
  /\ UNCHANGED <<mode, entries, at, session, listed, kept, skipped, tools, calls>>

(* What follows once the servers are set up: the bot is made, the run of   *)
(* -p begins, -mcp-list is done.                                           *)
AfterStart ==
  CASE mode = "telegram" -> "bot" [] mode = "print" -> "serve" [] mode = "list" -> "stopped"

(* The agent goes on without the servers; -mcp-list does not. The file may *)
(* also be unreadable or no JSON.                                          *)
LoadFails ==
  /\ phase = "load"
  /\ phase' = AfterStart
  /\ UNCHANGED <<mode, entries, todo, at, session, listed, kept, skipped, tools, calls>>

(* A Go map is ranged over in any order.                                   *)
NextServer(s) ==
  /\ phase = "start" /\ at = Nobody
  /\ s \in todo
  /\ at' = s /\ todo' = todo \ {s}
  /\ UNCHANGED <<mode, entries, phase, session, listed, kept, skipped, tools, calls>>

Connected(s) ==
  /\ at = s /\ session[s] = "none"
  /\ session' = [session EXCEPT ![s] = "open"]
  /\ UNCHANGED <<mode, entries, phase, todo, at, listed, kept, skipped, tools, calls>>

(* Bug: a server that is down ends the startup.                            *)
ConnectFailsForAll(s) ==
  /\ at = s /\ session[s] = "none"
  /\ at' = Nobody /\ todo' = {}
  /\ skipped' = skipped \cup {s}
  /\ UNCHANGED <<mode, entries, phase, session, listed, kept, tools, calls>>

ConnectFails(s) ==
  /\ at = s /\ session[s] = "none"
  /\ at' = Nobody
  /\ skipped' = skipped \cup {s}
  /\ UNCHANGED <<mode, entries, phase, todo, session, listed, kept, tools, calls>>

(* One more page of the server's tools; there are further ones.            *)
ListPage(s, page) ==
  /\ at = s /\ session[s] = "open"
  /\ page \subseteq Remotes \ listed[s] /\ page # {}
  /\ listed' = [listed EXCEPT ![s] = @ \cup page]
  /\ UNCHANGED <<mode, entries, phase, todo, at, session, kept, skipped, tools, calls>>

(* Bug: the session with the server is forgotten.                          *)
ListFailsUnclosed(s) ==
  /\ at = s /\ session[s] = "open"
  /\ at' = Nobody
  /\ skipped' = skipped \cup {s}
  /\ UNCHANGED <<mode, entries, phase, todo, session, listed, kept, tools, calls>>

ListFails(s) ==
  /\ at = s /\ session[s] = "open"
  /\ session' = [session EXCEPT ![s] = "closed"]
  /\ at' = Nobody
  /\ skipped' = skipped \cup {s}
  /\ UNCHANGED <<mode, entries, phase, todo, listed, kept, tools, calls>>

(* The name of an adapter.                                                 *)
Public(s, t) == s \o t

(* Register replaces a tool of the same name.                              *)
Registered(s) ==
  LET new == {Public(s, t) : t \in listed[s]}
  IN  [n \in DOMAIN tools \cup new |->
         IF n \in new THEN <<s, CHOOSE t \in listed[s] : Public(s, t) = n>> ELSE tools[n]]

(* The last page: the session and its tools join the others, except that   *)
(* -mcp-list only prints them.                                             *)
Discovered(s) ==
  /\ at = s /\ session[s] = "open"
  /\ at' = Nobody
  /\ IF mode = "list"
       THEN /\ session' = [session EXCEPT ![s] = "closed"]
            /\ UNCHANGED <<kept, tools>>
       ELSE /\ kept' = kept \cup {s}
            /\ tools' = Registered(s)
            /\ UNCHANGED session
  /\ UNCHANGED <<mode, entries, phase, todo, listed, skipped, calls>>

Started ==
  /\ phase = "start" /\ at = Nobody /\ todo = {}
  /\ phase' = AfterStart
  /\ UNCHANGED <<mode, entries, todo, at, session, listed, kept, skipped, tools, calls>>

BotStarts ==
  /\ phase = "bot"
  /\ phase' = "serve"
  /\ UNCHANGED <<mode, entries, todo, at, session, listed, kept, skipped, tools, calls>>

(* There is no token, or Telegram does not know it: log.Fatal ends the     *)
(* process and skips the deferred Close.                                   *)
BotFails ==
  /\ phase = "bot"
  /\ phase' = "died"
  /\ UNCHANGED <<mode, entries, todo, at, session, listed, kept, skipped, tools, calls>>

-----------------------------------------------------------------------------
(* Runs of the bot go on while main tears down; with -p there is one run,  *)
(* in main itself.                                                         *)
CallTool(n) ==
  /\ phase \in (IF mode = "telegram" THEN {"serve", "close"} ELSE {"serve"})
  /\ n \in DOMAIN tools \ calls
  /\ calls' = calls \cup {n}
  /\ UNCHANGED <<mode, entries, phase, todo, at, session, listed, kept, skipped, tools>>

ToolReturns(n) ==
  /\ phase \in {"serve", "close"}
  /\ n \in calls
  /\ calls' = calls \ {n}
  /\ UNCHANGED <<mode, entries, phase, todo, at, session, listed, kept, skipped, tools>>

(* Bug: a run that is cancelled does not wait for its tools.               *)
ShutDownAtOnce ==
  /\ phase = "serve"
  /\ phase' = "close"
  /\ UNCHANGED <<mode, entries, todo, at, session, listed, kept, skipped, tools, calls>>

(* The bot stops on a signal, -p when its run has ended, which waits for   *)
(* its tools.                                                              *)
ShutDown ==
  /\ phase = "serve"
  /\ mode = "print" => calls = {}
  /\ phase' = "close"
  /\ UNCHANGED <<mode, entries, todo, at, session, listed, kept, skipped, tools, calls>>

(* An error of one Close is kept for later and hides no other session.     *)
CloseSession(s) ==
  /\ phase = "close"
  /\ s \in kept /\ session[s] = "open"
  /\ session' = [session EXCEPT ![s] = "closed"]
  /\ UNCHANGED <<mode, entries, phase, todo, at, listed, kept, skipped, tools, calls>>

Closed ==
  /\ phase = "close"
  /\ \A s \in kept : session[s] = "closed"
  /\ kept' = {}
  /\ phase' = "stopped"
  /\ UNCHANGED <<mode, entries, todo, at, session, listed, skipped, tools, calls>>

Next ==
  \/ LoadConfig \/ LoadFails \/ Started \/ BotStarts \/ BotFails \/ ShutDown \/ Closed
  \/ \E s \in Servers :
       \/ NextServer(s) \/ Connected(s) \/ ConnectFails(s)
       \/ ListFails(s) \/ Discovered(s) \/ CloseSession(s)
       \/ \E page \in SUBSET Remotes : ListPage(s, page)
  \/ \E n \in DOMAIN tools : CallTool(n) \/ ToolReturns(n)

Spec == Init /\ [][Next]_vars

-----------------------------------------------------------------------------
Open == {s \in Servers : session[s] = "open"}

(* Every variable has its type, and a server whose turn it is was in the   *)
(* file and is no longer to do.                                            *)
TypeOK ==
  /\ mode \in {"telegram", "print", "list"}
  /\ entries \in [Servers -> {"absent", "valid", "invalid"}]
  /\ phase \in {"load", "start", "bot", "serve", "close", "stopped", "died"}
  /\ session \in [Servers -> {"none", "open", "closed"}]
  /\ listed \in [Servers -> SUBSET Remotes]
  /\ kept \subseteq Servers /\ skipped \subseteq Servers
  /\ calls \subseteq DOMAIN tools
  /\ todo \subseteq Configured
  /\ at \in (Configured \ todo) \cup {Nobody}

(* No connection leaks: a session that is open is either the one being set *)
(* up or in the Manager's list, which is closed to the last one before the *)
(* process stops; and until then a tool in the registry has a live session *)
(* behind it.  A process that dies because it gets no bot is excepted: it  *)
(* leaves its sessions open.                                               *)
SessionsAccounted ==
  /\ Open \subseteq kept \cup {at}
  /\ phase = "stopped" => Open = {}
  /\ phase \in {"start", "bot", "serve"} =>
       \A n \in DOMAIN tools : tools[n][1] \in Open \cup {Here}

Names(s) == {s \o t : t \in listed[s]}

Claims(s, t) == s \in Open /\ t \in listed[s]

Unshared(s, t) ==
  \A o \in Servers, u \in Remotes :
    Claims(o, u) /\ Public(o, u) = Public(s, t) => o = s /\ u = t

(* "A server that fails to connect or list is logged and skipped [...] the *)
(* remaining servers plus all local tools keep working" (manager.go:27):   *)
(* when the agent serves, it has tried every server of a file it could     *)
(* load; the local tools are all there, under their names; and so is every *)
(* tool of every server that could be listed, unless another one has its   *)
(* public name.                                                            *)
StartupResilient ==
  phase = "serve" =>
    /\ Open \cup skipped \in {{}, Configured}
    /\ \A n \in Locals : tools[n] = <<Here, n>>
    /\ \A s \in Servers, t \in Remotes :
         Claims(s, t) /\ Unshared(s, t) => tools[Public(s, t)] = <<s, t>>
    /\ DOMAIN tools = Locals \cup UNION {Names(s) : s \in Open}

(* With -p no session is closed under a tool that is still executing: the  *)
(* run has waited for its tools before main closes anything.               *)
CallsBeforeClose ==
  mode = "print" =>
    \A n \in calls : tools[n][1] \in Open \cup {Here}

-----------------------------------------------------------------------------
(* "This namespacing prevents collisions between servers" (adapter.go:12): *)
(* a server that is connected has each of its tools in the registry.       *)
NamespaceKeepsApart ==
  phase = "serve" =>
    \A s \in Servers, t \in Remotes :
      Claims(s, t) => tools[Public(s, t)] = <<s, t>>

=============================================================================
