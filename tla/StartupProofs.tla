--------------------------- MODULE StartupProofs ----------------------------
(***************************************************************************)
(* Proofs about Startup: of its servers and tools, whatever their number   *)
(* and names, and of the prompt, whatever is on the disk and whatever the  *)
(* skills' files say.                                                      *)
(***************************************************************************)
EXTENDS Startup, TextProofs, FiniteSetTheorems

(* What main does in each phase: servers are set up only while starting,   *)
(* and tools run only from then on.                                        *)
Phased ==
  /\ at # Nobody => phase = "start"
  /\ phase = "load" => kept = {} /\ Open = {}
  /\ mode = "list" => kept = {}
  /\ phase = "stopped" => Open = {}
  /\ mode = "print" /\ calls # {} => phase = "serve"

(* A session is open for the server being set up or for those kept, which  *)
(* are neither still to do nor closed before the end, and no others have   *)
(* tools in the registry.                                                  *)
Accounted ==
  /\ Open \subseteq kept \cup {at}
  /\ kept \cap (todo \cup {at}) = {}
  /\ phase \notin {"close", "stopped", "died"} => kept \subseteq Open
  /\ \A n \in DOMAIN tools : phase \in {"load", "start", "bot", "serve"} =>
                               tools[n][1] \in kept \cup {Here}

IInv == TypeOK /\ Phased /\ Accounted

LEMMA InitInv == Init => IInv
BY McpAssumption
DEF Init, IInv, TypeOK, Phased, Accounted, Open, Configured, LocalTools

LEMMA StepInv == IInv /\ [Next]_vars => IInv'
<1> USE McpAssumption DEF IInv, Open, Configured
<1> SUFFICES ASSUME IInv, [Next]_vars PROVE IInv'
  OBVIOUS
<1>1. CASE LoadConfig
  BY <1>1 DEF LoadConfig, TypeOK, Phased, Accounted
<1>2. CASE LoadFails
  BY <1>2 DEF LoadFails, AfterStart, TypeOK, Phased, Accounted
<1>3. CASE Started \/ BotStarts \/ BotFails
  BY <1>3 DEF Started, BotStarts, BotFails, AfterStart, TypeOK, Phased, Accounted
<1>4. CASE ShutDown
  BY <1>4 DEF ShutDown, TypeOK, Phased, Accounted
<1>5. CASE Closed
  BY <1>5 DEF Closed, TypeOK, Phased, Accounted
<1>6. ASSUME NEW s \in Servers, NextServer(s) PROVE IInv'
  BY <1>6 DEF NextServer, TypeOK, Phased, Accounted
<1>7. ASSUME NEW s \in Servers, Connected(s) PROVE IInv'
  BY <1>7 DEF Connected, TypeOK, Phased, Accounted
<1>8. ASSUME NEW s \in Servers, ConnectFails(s) PROVE IInv'
  BY <1>8 DEF ConnectFails, TypeOK, Phased, Accounted
<1>9. ASSUME NEW s \in Servers, ListFails(s) PROVE IInv'
  BY <1>9 DEF ListFails, TypeOK, Phased, Accounted
<1>10. ASSUME NEW s \in Servers, Discovered(s) PROVE IInv'
  <2>1. CASE mode = "list"
    <3>1. /\ at = s /\ at' = Nobody
          /\ session' = [session EXCEPT ![s] = "closed"]
          /\ UNCHANGED <<mode, entries, phase, todo, listed, kept, skipped, tools, calls>>
      BY <1>10, <2>1 DEF Discovered
    <3>2. TypeOK'
      BY <3>1 DEF TypeOK
    <3>3. Open' = Open \ {s} /\ kept = {}
      BY <2>1, <3>1 DEF TypeOK, Phased
    <3>4. Phased' /\ Accounted'
      BY <3>1, <3>3 DEF Phased, Accounted
    <3> QED
      BY <3>2, <3>4
  <2>2. CASE mode # "list"
    <3>1. /\ kept' = kept \cup {s} /\ tools' = Registered(s)
          /\ at = s /\ at' = Nobody /\ session[s] = "open"
          /\ UNCHANGED <<mode, entries, phase, todo, session, listed, skipped, calls>>
      BY <1>10, <2>2 DEF Discovered
    <3>2. /\ DOMAIN tools \subseteq DOMAIN tools'
          /\ \A n \in DOMAIN tools' :
               \/ tools'[n][1] = s
               \/ n \in DOMAIN tools /\ tools'[n] = tools[n]
      BY <3>1 DEF Registered
    <3>3. TypeOK'
      BY <3>1, <3>2 DEF TypeOK
    <3>4. Phased'
      BY <2>2, <3>1 DEF TypeOK, Phased
    <3>5. Accounted'
      <4>1. \A n \in DOMAIN tools' : phase' \in {"load", "start", "bot", "serve"} =>
                                       tools'[n][1] \in kept' \cup {Here}
        BY <3>1, <3>2 DEF Accounted
      <4>2. kept' \cap (todo' \cup {at'}) = {}
        BY <3>1 DEF Accounted, TypeOK
      <4> QED
        BY <3>1, <4>1, <4>2 DEF Accounted, TypeOK
    <3> QED
      BY <3>3, <3>4, <3>5
  <2> QED
    BY <2>1, <2>2
<1>11. ASSUME NEW s \in Servers, CloseSession(s) PROVE IInv'
  BY <1>11 DEF CloseSession, TypeOK, Phased, Accounted
<1>12. ASSUME NEW s \in Servers, NEW page \in SUBSET Remotes, ListPage(s, page)
       PROVE IInv'
  BY <1>12 DEF ListPage, TypeOK, Phased, Accounted
<1>13. ASSUME NEW n \in DOMAIN tools, CallTool(n) PROVE IInv'
  BY <1>13 DEF CallTool, TypeOK, Phased, Accounted
<1>14. ASSUME NEW n \in DOMAIN tools, ToolReturns(n) PROVE IInv'
  BY <1>14 DEF ToolReturns, TypeOK, Phased, Accounted
<1>15. CASE UNCHANGED vars
  BY <1>15 DEF vars, TypeOK, Phased, Accounted
<1> QED
  BY <1>1, <1>2, <1>3, <1>4, <1>5, <1>6, <1>7, <1>8, <1>9, <1>10, <1>11, <1>12,
     <1>13, <1>14, <1>15
  DEF Next

LEMMA Invariant == Spec => []IInv
BY InitInv, StepInv, PTL DEF Spec

(* The variables keep their types, whatever mcp.json and the servers say.  *)
THEOREM TypeCorrect == Spec => []TypeOK
<1>1. IInv => TypeOK
  BY DEF IInv
<1> QED
  BY <1>1, Invariant, PTL

(* No session leaks on any path through startup and teardown, and no tool  *)
(* is offered whose session was closed.                                    *)
THEOREM NoSessionLeaks == Spec => []SessionsAccounted
<1>1. IInv => SessionsAccounted
  BY DEF IInv, Phased, Accounted, SessionsAccounted
<1> QED
  BY <1>1, Invariant, PTL

(* With -p, sessions are closed only when no tool executes any more.       *)
THEOREM PrintWaits == Spec => []CallsBeforeClose
<1>1. IInv => CallsBeforeClose
  BY DEF IInv, TypeOK, Phased, Accounted, CallsBeforeClose
<1> QED
  BY <1>1, Invariant, PTL

-----------------------------------------------------------------------------
(* Each server of the file is skipped, kept, set up or still to do; and if *)
(* the file is refused, none is anything.                                  *)
Tried ==
  /\ mode = "list" => phase \notin {"bot", "serve", "close"}
  /\ phase = "load" => skipped = {}
  /\ phase = "start" /\ mode # "list" =>
       kept \cup skipped \cup todo \cup ({at} \ {Nobody}) = Configured
  /\ phase \in {"bot", "serve"} => kept \cup skipped \in {{}, Configured}

(* The registry holds the local tools and those of the servers kept.       *)
Registry ==
  mode # "list" /\ phase \in {"load", "start", "bot", "serve"} =>
    /\ DOMAIN tools = Locals \cup UNION {Names(s) : s \in kept}
    /\ \A n \in Locals : tools[n] = <<Here, n>>
    /\ \A s \in kept : \A t \in listed[s] : \E o \in kept : \E u \in listed[o] :
         Public(o, u) = s \o t /\ tools[s \o t] = <<o, u>>

(* A public name has two parts at least, and no local one has.             *)
LEMMA PublicIsNotLocal ==
  ASSUME NEW s \in Servers, NEW t \in Remotes
  PROVE  Public(s, t) \notin Locals
<1>1. s \in Seq(STRING) /\ t \in Seq(STRING) /\ s # <<>> /\ t # <<>>
  BY McpAssumption
<1>2. Len(s) >= 1 /\ Len(t) >= 1
  BY <1>1, EmptySeq, LenProperties
<1>3. Len(Public(s, t)) = Len(s) + Len(t)
  BY <1>1, ConcatProperties DEF Public
<1>4. \A n \in Locals : Len(n) = 1
  BY McpAssumption
<1>5. Len(s) + Len(t) # 1
  BY <1>1, <1>2, LenProperties
<1> QED
  BY <1>3, <1>4, <1>5

LEMMA StepTried == IInv /\ Tried /\ [Next]_vars => Tried'
<1> USE McpAssumption DEF IInv, Configured
<1> SUFFICES ASSUME IInv, Tried, [Next]_vars PROVE Tried'
  OBVIOUS
<1>1. CASE LoadConfig \/ LoadFails
  BY <1>1 DEF LoadConfig, LoadFails, AfterStart, TypeOK, Phased, Tried
<1>2. CASE Started \/ BotStarts \/ BotFails \/ ShutDown \/ Closed
  BY <1>2 DEF Started, BotStarts, BotFails, AfterStart, ShutDown, Closed, TypeOK, Phased, Tried
<1>3. ASSUME NEW s \in Servers,
             NextServer(s) \/ Connected(s) \/ ConnectFails(s) \/ ListFails(s)
      PROVE Tried'
  BY <1>3 DEF NextServer, Connected, ConnectFails, ListFails, TypeOK, Phased, Tried
<1>4. ASSUME NEW s \in Servers, Discovered(s) PROVE Tried'
  BY <1>4 DEF Discovered, TypeOK, Phased, Tried
<1>5. ASSUME NEW s \in Servers, CloseSession(s) PROVE Tried'
  BY <1>5 DEF CloseSession, Tried
<1>6. ASSUME NEW s \in Servers, NEW page \in SUBSET Remotes, ListPage(s, page)
      PROVE Tried'
  BY <1>6 DEF ListPage, Tried
<1>7. ASSUME NEW n \in DOMAIN tools, CallTool(n) \/ ToolReturns(n) PROVE Tried'
  BY <1>7 DEF CallTool, ToolReturns, Tried
<1>8. CASE UNCHANGED vars
  BY <1>8 DEF vars, Tried
<1> QED
  BY <1>1, <1>2, <1>3, <1>4, <1>5, <1>6, <1>7, <1>8 DEF Next

LEMMA StepRegistry == IInv /\ Registry /\ [Next]_vars => Registry'
<1> SUFFICES ASSUME IInv, Registry, [Next]_vars PROVE Registry'
  OBVIOUS
<1>1. CASE UNCHANGED <<mode, listed, kept, tools>>
           /\ (phase' \in {"load", "start", "bot", "serve"} =>
                 phase \in {"load", "start", "bot", "serve"})
  BY <1>1 DEF Registry, Names
<1>2. ASSUME NEW s \in Servers, NEW page \in SUBSET Remotes, ListPage(s, page)
      PROVE Registry'
  <2>1. s \notin kept /\ \A o \in kept : listed'[o] = listed[o]
    BY <1>2 DEF ListPage, IInv, Accounted, TypeOK
  <2>2. \A o \in kept : Names(o)' = Names(o)
    BY <2>1 DEF Names
  <2>3. UNCHANGED <<mode, phase, kept, tools>>
    BY <1>2 DEF ListPage
  <2> SUFFICES ASSUME mode # "list", phase \in {"load", "start", "bot", "serve"}
               PROVE  Registry'
    BY <2>3 DEF Registry
  <2>4. {Names(o)' : o \in kept'} = {Names(o) : o \in kept}
    BY <2>2, <2>3
  <2>5. DOMAIN tools' = Locals \cup UNION {Names(o)' : o \in kept'}
    BY <2>3, <2>4 DEF Registry
  <2>6. \A n \in Locals : tools'[n] = <<Here, n>>
    BY <2>3 DEF Registry
  <2>7. ASSUME NEW o \in kept', NEW t \in listed'[o]
        PROVE  \E p \in kept' : \E u \in listed'[p] :
                 Public(p, u) = o \o t /\ tools'[o \o t] = <<p, u>>
    BY <2>1, <2>3 DEF Registry
  <2> QED
    BY <2>5, <2>6, <2>7 DEF Registry
<1>3. ASSUME NEW s \in Servers, Discovered(s) PROVE Registry'
  <2>1. CASE mode = "list"
    BY <1>3, <2>1 DEF Discovered, Registry, Names
  <2>2. CASE mode # "list"
    <3> DEFINE new == {Public(s, t) : t \in listed[s]}
    <3>1. /\ kept' = kept \cup {s} /\ listed' = listed
          /\ phase = "start" /\ phase' = phase /\ mode' = mode
          /\ listed[s] \subseteq Remotes
      BY <1>3, <2>2, McpAssumption DEF Discovered, IInv, TypeOK, Phased
    <3>2. /\ DOMAIN tools' = DOMAIN tools \cup new
          /\ \A n \in DOMAIN tools \ new : tools'[n] = tools[n]
          /\ \A n \in new :
               tools'[n] = <<s, CHOOSE t \in listed[s] : Public(s, t) = n>>
      BY <1>3, <2>2 DEF Discovered, Registered
    <3>3. \A n \in new : \E u \in listed[s] : Public(s, u) = n /\ tools'[n] = <<s, u>>
      BY <3>2
    <3>4. /\ DOMAIN tools = Locals \cup UNION {Names(o) : o \in kept}
          /\ \A n \in Locals : tools[n] = <<Here, n>>
          /\ \A o \in kept : \A t \in listed[o] : \E p \in kept : \E u \in listed[p] :
               Public(p, u) = o \o t /\ tools[o \o t] = <<p, u>>
      BY <2>2, <3>1 DEF Registry
    <3>5. DOMAIN tools' = Locals \cup UNION {Names(o)' : o \in kept'}
      <4>1. new = Names(s)
        BY DEF Names, Public
      <4>2. \A o : Names(o)' = Names(o)
        BY <3>1 DEF Names
      <4> HIDE DEF new
      <4> QED
        BY <3>1, <3>2, <3>4, <4>1, <4>2
    <3>6. \A n \in Locals : tools'[n] = <<Here, n>>
      BY <3>1, <3>2, <3>4, PublicIsNotLocal
    <3>7. ASSUME NEW o \in kept', NEW t \in listed'[o]
          PROVE  \E p \in kept' : \E u \in listed'[p] :
                   Public(p, u) = o \o t /\ tools'[o \o t] = <<p, u>>
      <4>1. CASE o \o t \in new
        BY <3>1, <3>3, <4>1
      <4>2. CASE o \o t \notin new
        <5>1. o \in kept /\ t \in listed[o]
          BY <3>1, <4>2 DEF Public
        <5>2. o \o t \in DOMAIN tools
          <6>1. o \o t \in Names(o)
            BY <5>1 DEF Names
          <6> QED
            BY <3>4, <5>1, <6>1
        <5>3. tools'[o \o t] = tools[o \o t]
          BY <3>2, <4>2, <5>2
        <5> QED
          BY <3>1, <3>4, <5>1, <5>3
      <4> QED
        BY <4>1, <4>2
    <3> QED
      BY <3>5, <3>6, <3>7 DEF Registry
  <2> QED
    BY <2>1, <2>2
<1>4. CASE LoadConfig \/ LoadFails \/ Started \/ BotStarts \/ BotFails \/ ShutDown
  BY <1>1, <1>4 DEF LoadConfig, LoadFails, Started, BotStarts, BotFails, ShutDown
<1>5. CASE Closed
  BY <1>5 DEF Closed, Registry
<1>6. ASSUME NEW s \in Servers,
             \/ NextServer(s) \/ Connected(s) \/ ConnectFails(s)
             \/ ListFails(s) \/ CloseSession(s)
      PROVE Registry'
  BY <1>1, <1>6 DEF NextServer, Connected, ConnectFails, ListFails, CloseSession
<1>7. ASSUME NEW n \in DOMAIN tools, CallTool(n) \/ ToolReturns(n) PROVE Registry'
  BY <1>1, <1>7 DEF CallTool, ToolReturns
<1>8. CASE UNCHANGED vars
  BY <1>1, <1>8 DEF vars
<1> QED
  BY <1>2, <1>3, <1>4, <1>5, <1>6, <1>7, <1>8 DEF Next

(* One bad server, in whatever way and order it fails, neither removes a   *)
(* local tool nor keeps another server's tools away, but for the tools     *)
(* whose public names two servers share.                                   *)
THEOREM Resilience == Spec => []StartupResilient
<1>1. Init => Tried /\ Registry
  BY McpAssumption DEF Init, Tried, Registry, LocalTools, Configured
<1>2. IInv /\ Tried /\ Registry => StartupResilient
  <2> SUFFICES ASSUME IInv, Tried, Registry, phase = "serve"
               PROVE  StartupResilient
    BY DEF StartupResilient
  <2>1. at = Nobody /\ Open = kept /\ mode # "list"
    BY McpAssumption DEF IInv, TypeOK, Phased, Accounted, Tried, Open
  <2>2. ASSUME NEW s \in Servers, NEW t \in Remotes, Claims(s, t), Unshared(s, t)
        PROVE  tools[Public(s, t)] = <<s, t>>
    <3>1. PICK o \in kept : \E u \in listed[o] :
            Public(o, u) = s \o t /\ tools[s \o t] = <<o, u>>
      BY <2>1, <2>2 DEF Registry, Claims
    <3>2. PICK u \in listed[o] : Public(o, u) = s \o t /\ tools[s \o t] = <<o, u>>
      BY <3>1
    <3>3. o \in Servers /\ u \in Remotes /\ Claims(o, u)
      BY <2>1, <3>2 DEF IInv, TypeOK, Claims
    <3>4. o = s /\ u = t
      BY <2>2, <3>2, <3>3 DEF Unshared, Public
    <3> QED
      BY <3>2, <3>4 DEF Public
  <2>3. Open \cup skipped \in {{}, Configured}
    BY <2>1 DEF Tried
  <2> QED
    BY <2>1, <2>2, <2>3 DEF StartupResilient, Registry
<1> QED
  BY <1>1, <1>2, Invariant, StepTried, StepRegistry, PTL DEF Spec

-----------------------------------------------------------------------------
(* The prompt.  Building it disturbs no server and no tool, so that all    *)
(* the above holds of Startup too.                                         *)
THEOREM StartupKeepsServers == StartupSpec => Spec
<1>1. StartupInit => Init
  BY DEF StartupInit
<1>2. [StartupNext]_startupVars => [Next]_vars
  BY DEF StartupNext, StartRun, startupVars
<1> QED
  BY <1>1, <1>2, PTL DEF StartupSpec, Spec

(* What the walk does at one entry.                                        *)
WalkStep(p, f) ==
  IF f.kind = "skill" THEN Append(p, ParseSkillMD(f.content, f.dir)) ELSE p

Walked(files) == FoldLeft(WalkStep, <<>>, files)

Parsed(S) == {ParseSkillMD(f.content, f.dir) : f \in {g \in S : g.kind = "skill"}}

LEMMA WalkFold ==
  ASSUME NEW S, NEW files \in Seq(S)
  PROVE  \E r \in [0..Len(files) -> Seq(Parsed(S))] :
           /\ r[0] = <<>>
           /\ \A k \in 1..Len(files) : r[k] = WalkStep(r[k-1], files[k])
           /\ Walked(files) = r[Len(files)]
<1> DEFINE n == Len(files)
           R == Seq(Parsed(S))
           G == [x \in R \X (1..n) |-> WalkStep(x[1], files[x[2]])]
           Good(g) == g = [s \in SUBSET (1..n) |->
                             IF s = {} THEN <<>> ELSE WalkStep(g[s \ {Max(s)}], files[Max(s)])]
           h == CHOOSE g : Good(g)
<1>1. n \in Nat /\ DOMAIN files = 1..n
  OBVIOUS
<1>2. Walked(files) = h[1..n]
  BY <1>1 DEF Walked, FoldLeft, MapThenFoldSet
<1>3. <<>> \in R /\ G \in [R \X (1..n) -> R]
  <2>1. <<>> \in R
    BY EmptySeq
  <2>2. ASSUME NEW u \in R, NEW i \in 1..n PROVE WalkStep(u, files[i]) \in R
    <3>1. files[i] \in S
      BY <1>1, ElementOfSeq
    <3>2. files[i].kind = "skill" =>
            ParseSkillMD(files[i].content, files[i].dir) \in Parsed(S)
      BY <3>1 DEF Parsed
    <3> DEFINE e == ParseSkillMD(files[i].content, files[i].dir)
    <3>3. files[i].kind = "skill" => Append(u, e) \in R
      <4> HIDE DEF e
      <4> QED
        BY <3>2, AppendProperties DEF e
    <3> QED
      BY <3>3 DEF WalkStep
  <2> QED
    BY <2>1, <2>2
<1>4. \E g : Good(g)
  <2>1. PICK f \in [SUBSET (1..n) -> R] : Iterates(f, n, <<>>, G)
    <3> HIDE DEF G, n, R
    <3> QED
      BY <1>1, <1>3, FoldExists
  <2>2. ASSUME NEW s \in SUBSET (1..n), s # {}
        PROVE  G[<<f[s \ {Max(s)}], Max(s)>>] = WalkStep(f[s \ {Max(s)}], files[Max(s)])
    <3>1. Max(s) \in 1..n /\ f[s \ {Max(s)}] \in R
      BY <1>1, <2>2, MaxIsMember
    <3> QED
      BY <3>1
  <2>3. f = [s \in SUBSET (1..n) |-> IF s = {} THEN <<>> ELSE G[<<f[s \ {Max(s)}], Max(s)>>]]
    BY <2>1 DEF Iterates
  <2> HIDE DEF G, n, R
  <2>4. Good(f)
    BY <2>2, <2>3
  <2> HIDE DEF Good
  <2> QED
    BY <2>4
<1>5. Good(h)
  <2> HIDE DEF Good
  <2> QED
    BY <1>4
<1> HIDE DEF h
<1>6. h[{}] = <<>>
  BY <1>5
<1>7. ASSUME NEW k \in 1..n, h[1..(k-1)] \in R PROVE h[1..k] = G[<<h[1..(k-1)], k>>]
  <2>1. Max(1..k) = k /\ (1..k) \ {k} = 1..(k-1) /\ 1..k # {} /\ 1..k \in SUBSET (1..n)
    BY <1>1, PrefixFold
  <2>2. h[1..k] = WalkStep(h[1..(k-1)], files[k])
    BY <1>5, <2>1
  <2> QED
    BY <1>7, <2>2
<1>8. Reaches(h, n, R, <<>>, G)
  <2> DEFINE b == <<>>
  <2>1. b \in R /\ h[{}] = b
    BY <1>3, <1>6
  <2> HIDE DEF G, n, R, b
  <2>2. Follows(h, n, R, b, G)
    BY <1>7, <2>1 DEF Follows
  <2>3. Reaches(h, n, R, b, G)
    BY <1>1, <1>3, <2>1, <2>2, FoldPrefixes
  <2> QED
    BY <2>3 DEF b
<1>9. PICK r \in [0..n -> R] :
        r[0] = <<>> /\ (\A k \in 1..n : r[k] = G[<<r[k-1], k>>]) /\ r[n] = h[1..n]
  <2> HIDE DEF G, n, R
  <2> QED
    BY <1>8 DEF Reaches
<1>10. ASSUME NEW k \in 1..n PROVE r[k] = WalkStep(r[k-1], files[k])
  <2>1. k - 1 \in 0..n
    BY <1>1
  <2> QED
    BY <1>9, <2>1
<1> QED
  BY <1>2, <1>9, <1>10

(* A skill has its directory, and no other section is a skill.             *)
LEMMA ParsedFields ==
  ASSUME NEW content, NEW dir
  PROVE  ParseSkillMD(content, dir).part = "skill" /\ ParseSkillMD(content, dir).dir = dir
<1>1. \A n, d, b : Skill(n, d, b, dir).part = "skill" /\ Skill(n, d, b, dir).dir = dir
  BY DEF Skill
<1>2. \E n, d, b : ParseSkillMD(content, dir) = Skill(n, d, b, dir)
  <2>1. CASE Opens(content) /\ Cardinality(Delimiters(content)) > 1
    BY <2>1 DEF ParseSkillMD
  <2>2. CASE ~(Opens(content) /\ Cardinality(Delimiters(content)) > 1)
    BY <2>2 DEF ParseSkillMD
  <2> QED
    BY <2>1, <2>2
<1> QED
  BY <1>1, <1>2

(* The skills told are those of the SKILL.md files, in their order: g says *)
(* of which file each is.                                                  *)
Tells(g, skills, files, k) ==
  /\ g \in [1..Len(skills) -> 1..k]
  /\ \A x \in 1..Len(skills) :
       /\ files[g[x]].kind = "skill"
       /\ skills[x].part = "skill" /\ skills[x].dir = files[g[x]].dir
       /\ \A y \in 1..Len(skills) : x < y => g[x] < g[y]
  /\ \A i \in 1..k : files[i].kind = "skill" => \E x \in 1..Len(skills) : g[x] = i

LEMMA WalkTells ==
  ASSUME NEW S, NEW files \in Seq(S)
  PROVE  /\ Walked(files) \in Seq(Parsed(S))
         /\ \E g : Tells(g, Walked(files), files, Len(files))
<1> DEFINE n == Len(files)
<1>1. PICK r \in [0..n -> Seq(Parsed(S))] :
        /\ r[0] = <<>>
        /\ \A k \in 1..n : r[k] = WalkStep(r[k-1], files[k])
        /\ Walked(files) = r[n]
  BY WalkFold
<1>2. n \in Nat /\ \A i \in 1..n : files[i] \in S
  BY LenProperties, ElementOfSeq
<1> HIDE DEF n
<1> DEFINE T == {k \in 0..n : \E g : Tells(g, r[k], files, k)}
<1>3. 0 \in T
  <2> DEFINE g == [x \in 1..0 |-> 0]
  <2>1. Len(<<>>) = 0
    BY EmptySeq
  <2>2. Tells(g, <<>>, files, 0)
    BY <2>1 DEF Tells
  <2> HIDE DEF g
  <2>3. 0 \in 0..n /\ Tells(g, r[0], files, 0)
    BY <1>1, <1>2, <2>2
  <2> QED
    BY <2>3
<1>4. ASSUME NEW k \in 0..(n-1), k \in T PROVE k + 1 \in T
  <2>1. /\ k + 1 \in 1..n /\ (k + 1) - 1 = k /\ k + 1 \in 0..n /\ k \in 0..n /\ k \in Nat
    BY <1>2
  <2>2. PICK g : Tells(g, r[k], files, k)
    BY <1>4
  <2>3. r[k+1] = WalkStep(r[k], files[k+1])
    BY <1>1, <2>1
  <2> DEFINE s == r[k]
             m == Len(s)
             e == ParseSkillMD(files[k+1].content, files[k+1].dir)
  <2>4. s \in Seq(Parsed(S)) /\ m \in Nat
    BY <1>1, <2>1, LenProperties
  <2>5. CASE files[k+1].kind = "skill"
    <3> DEFINE f == [x \in 1..(m+1) |-> IF x = m + 1 THEN k + 1 ELSE g[x]]
               t == Append(s, e)
    <3>1. e \in Parsed(S) /\ e.part = "skill" /\ e.dir = files[k+1].dir
      BY <1>2, <2>1, <2>5, ParsedFields DEF Parsed
    <3>2. r[k+1] = t
      BY <2>3, <2>5 DEF WalkStep
    <3> HIDE DEF e
    <3>3. /\ Len(t) = m + 1 /\ t[m+1] = e
          /\ \A x \in 1..m : t[x] = s[x]
      BY <2>4, <3>1, AppendProperties
    <3>4. /\ g \in [1..m -> 1..k]
          /\ \A x \in 1..m :
               /\ files[g[x]].kind = "skill"
               /\ s[x].part = "skill" /\ s[x].dir = files[g[x]].dir
               /\ \A y \in 1..m : x < y => g[x] < g[y]
          /\ \A i \in 1..k : files[i].kind = "skill" => \E x \in 1..m : g[x] = i
      BY <2>2 DEF Tells
    <3> HIDE DEF t, s, m
    <3>5. f \in [1..(m+1) -> 1..(k+1)]
      BY <2>1, <2>4, <3>4
    <3>6. /\ f[m+1] = k + 1
          /\ \A x \in 1..m : f[x] = g[x] /\ f[x] \in 1..k /\ x \in 1..(m+1)
      BY <2>4, <3>4
    <3> HIDE DEF f
    <3>7. \A x \in 1..(m+1) : x = m + 1 \/ x \in 1..m
      BY <2>4
    <3>8. ASSUME NEW x \in 1..(m+1)
          PROVE  /\ files[f[x]].kind = "skill"
                 /\ t[x].part = "skill" /\ t[x].dir = files[f[x]].dir
      <4>1. CASE x = m + 1
        BY <2>5, <3>1, <3>3, <3>6, <4>1
      <4>2. CASE x \in 1..m
        BY <3>3, <3>4, <3>6, <4>2
      <4> QED
        BY <3>7, <4>1, <4>2
    <3>9. ASSUME NEW x \in 1..(m+1), NEW y \in 1..(m+1), x < y PROVE f[x] < f[y]
      <4>1. x \in 1..m
        BY <2>4, <3>9
      <4>2. CASE y = m + 1
        BY <2>1, <3>6, <4>1, <4>2
      <4>3. CASE y \in 1..m
        BY <3>4, <3>6, <3>9, <4>1, <4>3
      <4> QED
        BY <3>7, <4>2, <4>3
    <3>10. ASSUME NEW i \in 1..(k+1), files[i].kind = "skill"
           PROVE  \E x \in 1..(m+1) : f[x] = i
      <4>1. CASE i = k + 1
        <5>1. m + 1 \in 1..(m+1)
          BY <2>4
        <5> QED
          BY <3>6, <4>1, <5>1
      <4>2. CASE i \in 1..k
        BY <3>4, <3>6, <3>10, <4>2
      <4> QED
        BY <2>1, <4>1, <4>2
    <3>11. Tells(f, t, files, k + 1)
      BY <3>3, <3>5, <3>8, <3>9, <3>10 DEF Tells
    <3> QED
      BY <2>1, <3>2, <3>11
  <2>6. CASE files[k+1].kind # "skill"
    <3>1. r[k+1] = r[k]
      BY <2>3, <2>6 DEF WalkStep
    <3>2. Tells(g, r[k], files, k + 1)
      <4>1. g \in [1..m -> 1..k] => g \in [1..m -> 1..(k+1)]
        BY <2>1
      <4>2. \A i \in 1..(k+1) : i = k + 1 \/ i \in 1..k
        BY <2>1
      <4> QED
        BY <2>2, <2>6, <4>1, <4>2 DEF Tells
    <3> QED
      BY <2>1, <3>1, <3>2
  <2> QED
    BY <2>5, <2>6
<1>5. T = 0..n
  <2>1. T \in SUBSET (0..n)
    OBVIOUS
  <2> HIDE DEF T
  <2> QED
    BY <1>2, <1>3, <1>4, <2>1, Upwards
<1>6. n \in 0..n
  BY <1>2
<1>7. \E g : Tells(g, r[n], files, n)
  BY <1>5, <1>6
<1> QED
  BY <1>1, <1>6, <1>7 DEF n

(* The walk reaches all before the first directory it cannot list.         *)
LEMMA ReachedIs ==
  ASSUME NEW S, NEW tree \in Seq(S)
  PROVE  LET m == Len(Reached(tree))
         IN  /\ Reached(tree) \in Seq(S) /\ m \in 0..Len(tree)
             /\ \A i \in 1..m : Reached(tree)[i] = tree[i]
             /\ {i \in DOMAIN tree : \A j \in 1..i : tree[j].kind # "locked"} = 1..m
<1> DEFINE n == Len(tree)
           locked == {i \in DOMAIN tree : tree[i].kind = "locked"}
           m == Len(Reached(tree))
<1>1. n \in Nat /\ DOMAIN tree = 1..n /\ \A i \in 1..n : tree[i] \in S
  BY LenProperties, ElementOfSeq
<1>2. CASE locked = {}
  <2>1. Reached(tree) = tree
    BY <1>2 DEF Reached
  <2>2. {i \in DOMAIN tree : \A j \in 1..i : tree[j].kind # "locked"} = 1..n
    <3>1. \A i \in 1..n : \A j \in 1..i : j \in 1..n
      BY <1>1
    <3> QED
      BY <1>1, <1>2, <3>1
  <2> QED
    BY <1>1, <2>1, <2>2
<1>3. CASE locked # {}
  <2> DEFINE l == Min(locked)
  <2>1. Reached(tree) = SubSeq(tree, 1, l - 1)
    BY <1>3 DEF Reached
  <2>2. l \in locked /\ \A y \in locked : l <= y
    <3>1. locked \in SUBSET Nat
      BY <1>1
    <3> HIDE DEF locked
    <3> QED
      BY <1>3, <3>1, MinIsMember
  <2>3. l \in 1..n /\ tree[l].kind = "locked"
    BY <1>1, <2>2
  <2>4. \A i \in 1..(l-1) : i \in 1..n /\ tree[i] \in S /\ tree[i].kind # "locked"
    <3>1. \A i \in 1..(l-1) : i \in 1..n /\ i < l
      BY <1>1, <2>3
    <3>2. \A i \in 1..(l-1) : i \notin locked
      <4>1. l \in Int /\ \A i \in 1..(l-1) : i \in Int
        BY <2>3
      <4> HIDE DEF l, locked
      <4> QED
        BY <2>2, <3>1, <4>1
    <3> HIDE DEF l
    <3> QED
      BY <1>1, <3>1, <3>2
  <2> HIDE DEF l, locked
  <2>5. /\ Reached(tree) \in Seq(S) /\ Len(Reached(tree)) = l - 1
        /\ \A i \in 1..(l-1) : Reached(tree)[i] = tree[i]
    <3>1. 1 \in Int /\ l - 1 \in Int /\ \A i \in 1..(l-1) : tree[i] \in S
      BY <2>3, <2>4
    <3>2. /\ SubSeq(tree, 1, l - 1) \in Seq(S)
          /\ Len(SubSeq(tree, 1, l - 1)) = IF 1 <= l - 1 THEN (l - 1) - 1 + 1 ELSE 0
          /\ \A i \in 1..((l - 1) - 1 + 1) : SubSeq(tree, 1, l - 1)[i] = tree[1 + i - 1]
      BY <3>1, SubSeqProperties
    <3>3. (l - 1) - 1 + 1 = l - 1 /\ \A i \in 1..(l-1) : 1 + i - 1 = i
      BY <2>3
    <3>4. (IF 1 <= l - 1 THEN (l - 1) - 1 + 1 ELSE 0) = l - 1
      BY <2>3
    <3> QED
      BY <2>1, <3>2, <3>3, <3>4
  <2>6. {i \in DOMAIN tree : \A j \in 1..i : tree[j].kind # "locked"} = 1..(l-1)
    <3>1. ASSUME NEW i \in 1..n, \A j \in 1..i : tree[j].kind # "locked" PROVE i \in 1..(l-1)
      <4>1. l \notin 1..i
        BY <2>3, <3>1
      <4> QED
        BY <1>1, <2>3, <4>1
    <3>2. ASSUME NEW i \in 1..(l-1) PROVE i \in 1..n /\ \A j \in 1..i : tree[j].kind # "locked"
      <4>1. \A j \in 1..i : j \in 1..(l-1)
        BY <2>3
      <4> QED
        BY <2>4, <4>1
    <3> QED
      BY <1>1, <3>1, <3>2
  <2>7. l - 1 \in 0..n
    BY <1>1, <2>3
  <2> QED
    BY <2>5, <2>6, <2>7
<1> QED
  BY <1>2, <1>3

(* The prompt is its head, without skills, and the skills.                 *)
PromptHead(found, more) ==
  <<[part |-> "identity"]>>
    \o (IF PlanMode THEN <<[part |-> "plan mode"]>> ELSE <<>>)
    \o (IF found.agents = NoFile THEN <<>>
        ELSE <<[part |-> "agents", body |-> found.agents]>>)
    \o (IF more THEN <<[part |-> "skills header"]>> ELSE <<>>)

LEMMA OneOf == ASSUME NEW S, NEW e \in S PROVE <<e>> \in Seq(S) /\ Len(<<e>>) = 1
  OBVIOUS

LEMMA BuildIs ==
  ASSUME NEW found, NEW S, found.tree \in Seq(S)
  PROVE  LET skills == Walked(Reached(found.tree))
             head == PromptHead(found, skills # <<>>)
         IN  /\ Build(found) = head \o skills
             /\ Len(head) = 1 + (IF PlanMode THEN 1 ELSE 0)
                              + (IF found.agents = NoFile THEN 0 ELSE 1)
                              + (IF skills = <<>> THEN 0 ELSE 1)
             /\ \E H : head \in Seq(H) /\ \A e \in H : e.part # "skill"
<1> DEFINE H == {[part |-> "identity"], [part |-> "plan mode"],
                 [part |-> "agents", body |-> found.agents], [part |-> "skills header"]}
           skills == Walked(Reached(found.tree))
           a == <<[part |-> "identity"]>>
           b == IF PlanMode THEN <<[part |-> "plan mode"]>> ELSE <<>>
           c == IF found.agents = NoFile THEN <<>>
                ELSE <<[part |-> "agents", body |-> found.agents]>>
           d == IF skills # <<>> THEN <<[part |-> "skills header"]>> ELSE <<>>
           U == H \cup Parsed(S)
<1>1. skills \in Seq(Parsed(S))
  <2>1. Reached(found.tree) \in Seq(S)
    BY ReachedIs
  <2> QED
    BY <2>1, WalkTells
<1>2. LoadSkillsFrom(found.tree) =
        IF skills = <<>> THEN <<>> ELSE <<[part |-> "skills header"]>> \o skills
  BY DEF LoadSkillsFrom, Walked, WalkStep
<1> HIDE DEF skills
<1>3. a \in Seq(H) /\ Len(a) = 1
  <2>1. [part |-> "identity"] \in H
    OBVIOUS
  <2> HIDE DEF H
  <2> QED
    BY <2>1, OneOf
<1>4. b \in Seq(H) /\ Len(b) = IF PlanMode THEN 1 ELSE 0
  <2>1. [part |-> "plan mode"] \in H
    OBVIOUS
  <2> HIDE DEF H
  <2>2. CASE PlanMode
    BY <2>1, <2>2, OneOf
  <2>3. CASE ~(PlanMode)
    BY <2>3, EmptySeq
  <2> QED
    BY <2>2, <2>3
<1>5. c \in Seq(H) /\ Len(c) = IF found.agents = NoFile THEN 0 ELSE 1
  <2>1. [part |-> "agents", body |-> found.agents] \in H
    OBVIOUS
  <2> HIDE DEF H
  <2>2. CASE found.agents # NoFile
    BY <2>1, <2>2, OneOf
  <2>3. CASE ~(found.agents # NoFile)
    BY <2>3, EmptySeq
  <2> QED
    BY <2>2, <2>3
<1>6. d \in Seq(H) /\ Len(d) = IF skills = <<>> THEN 0 ELSE 1
  <2>1. [part |-> "skills header"] \in H
    OBVIOUS
  <2> HIDE DEF H
  <2>2. CASE skills # <<>>
    BY <2>1, <2>2, OneOf
  <2>3. CASE ~(skills # <<>>)
    BY <2>3, EmptySeq
  <2> QED
    BY <2>2, <2>3
<1>7. Build(found) = a \o b \o c \o LoadSkillsFrom(found.tree)
  BY DEF Build
<1>8. PromptHead(found, skills # <<>>) = a \o b \o c \o d
  BY DEF PromptHead
<1>9. LoadSkillsFrom(found.tree) = d \o skills
  <2>1. CASE skills = <<>>
    <3>1. d = <<>> /\ <<>> \o <<>> = <<>>
      BY <2>1
    <3> QED
      BY <1>2, <2>1, <3>1
  <2>2. CASE skills # <<>>
    BY <1>2, <2>2
  <2> QED
    BY <2>1, <2>2
<1>10. ASSUME NEW e \in H PROVE e.part # "skill"
  <2>1. \/ e = [part |-> "identity"] \/ e = [part |-> "plan mode"]
        \/ e = [part |-> "agents", body |-> found.agents] \/ e = [part |-> "skills header"]
    BY <1>10
  <2>2. [part |-> "identity"].part # "skill" /\ [part |-> "plan mode"].part # "skill"
    OBVIOUS
  <2>3. [part |-> "skills header"].part # "skill"
    OBVIOUS
  <2>4. [part |-> "agents", body |-> found.agents].part # "skill"
    OBVIOUS
  <2> QED
    BY ONLY <2>1, <2>2, <2>3, <2>4
<1> HIDE DEF a, b, c, d, H
<1> DEFINE ab == a \o b
           abc == ab \o c
           abcd == abc \o d
<1>11. abc \in Seq(H) /\ abcd \in Seq(H) /\ Len(abcd) = Len(a) + Len(b) + Len(c) + Len(d)
  <2>1. ab \in Seq(H) /\ Len(ab) = Len(a) + Len(b)
    BY <1>3, <1>4, ConcatProperties
  <2> HIDE DEF ab
  <2>2. abc \in Seq(H) /\ Len(abc) = Len(a) + Len(b) + Len(c)
    BY <1>5, <2>1, ConcatProperties
  <2> HIDE DEF abc
  <2>3. abcd \in Seq(H) /\ Len(abcd) = Len(abc) + Len(d)
    BY <1>6, <2>2, ConcatProperties
  <2>4. Len(a) \in Nat /\ Len(b) \in Nat /\ Len(c) \in Nat /\ Len(d) \in Nat
    BY <1>3, <1>4, <1>5, <1>6, LenProperties
  <2> HIDE DEF abcd
  <2> QED
    BY <2>2, <2>3, <2>4
<1>12. Build(found) = abcd \o skills
  <2>1. H \subseteq U /\ Parsed(S) \subseteq U
    OBVIOUS
  <2>2. abc \in Seq(U) /\ d \in Seq(U) /\ skills \in Seq(U)
    <3> HIDE DEF U, abc
    <3> QED
      BY <1>1, <1>6, <1>11, <2>1, SeqMonotonic
  <2>3. Build(found) = abc \o (d \o skills)
    BY <1>7, <1>9
  <2>4. abc \o (d \o skills) = abcd \o skills
    <3> HIDE DEF U, abc
    <3> QED
      BY <2>2, ConcatAssociative
  <2> QED
    BY <2>3, <2>4
<1>13. Len(abcd) = 1 + (IF PlanMode THEN 1 ELSE 0)
                              + (IF found.agents = NoFile THEN 0 ELSE 1)
                              + (IF skills = <<>> THEN 0 ELSE 1)
  BY <1>3, <1>4, <1>5, <1>6, <1>11
<1> HIDE DEF U
<1> QED
  BY <1>8, <1>10, <1>11, <1>12, <1>13 DEF skills

(* Whatever the walk comes upon, the prompt tells of what it should.       *)
LEMMA SkillsTold ==
  ASSUME NEW found, NEW S, found.tree \in Seq(S)
  PROVE  SkillsKept(found, Build(found))
<1> DEFINE tree == found.tree
           files == Reached(tree)
           m == Len(files)
           skills == Walked(files)
           n == Len(skills)
           head == PromptHead(found, skills # <<>>)
           o == Len(head)
           built == Build(found)
           told == {k \in DOMAIN built : built[k].part = "skill"}
           due == {i \in DOMAIN tree :
                     /\ tree[i].kind = "skill"
                     /\ \A j \in 1..i : tree[j].kind # "locked"}
<1>1. /\ files \in Seq(S) /\ m \in 0..Len(tree)
      /\ \A i \in 1..m : files[i] = tree[i]
      /\ {i \in DOMAIN tree : \A j \in 1..i : tree[j].kind # "locked"} = 1..m
  BY ReachedIs
<1>2. skills \in Seq(Parsed(S)) /\ \E g : Tells(g, skills, files, m)
  BY <1>1, WalkTells
<1>3. PICK g : Tells(g, skills, files, m)
  BY <1>2
<1>4. due = {i \in 1..m : files[i].kind = "skill"}
  BY <1>1
<1>5. /\ built = head \o skills
      /\ o = 1 + (IF PlanMode THEN 1 ELSE 0)
              + (IF found.agents = NoFile THEN 0 ELSE 1) + (IF skills = <<>> THEN 0 ELSE 1)
      /\ \E H : head \in Seq(H) /\ \A e \in H : e.part # "skill"
  BY BuildIs
<1>6. PICK H : head \in Seq(H) /\ \A e \in H : e.part # "skill"
  BY <1>5
<1> HIDE DEF head, skills, files, tree, due, built
<1>7. o \in Nat /\ n \in Nat /\ m \in Nat
  BY <1>1, <1>2, <1>6, LenProperties
<1>8. /\ DOMAIN built = 1..(o + n) /\ Len(built) = o + n
      /\ \A k \in 1..o : built[k] = head[k]
      /\ \A x \in 1..n : built[o + x] = skills[x]
  <2> DEFINE U == H \cup Parsed(S)
  <2>1. head \in Seq(U) /\ skills \in Seq(U)
    <3>1. H \subseteq U /\ Parsed(S) \subseteq U
      OBVIOUS
    <3> HIDE DEF U
    <3> QED
      BY <1>2, <1>6, <3>1, SeqMonotonic
  <2> HIDE DEF U
  <2>2. /\ built \in Seq(U) /\ Len(built) = o + n
        /\ \A k \in 1..(o + n) : built[k] = IF k <= o THEN head[k] ELSE skills[k - o]
    BY <1>5, <2>1, ConcatProperties
  <2>3. \A k \in 1..o : k \in 1..(o + n) /\ k <= o
    BY <1>7
  <2>4. \A x \in 1..n : o + x \in 1..(o + n) /\ ~(o + x <= o) /\ (o + x) - o = x
    BY <1>7
  <2> HIDE DEF o, n
  <2> QED
    BY <2>2, <2>3, <2>4, LenProperties
<1>9. /\ g \in [1..n -> 1..m]
      /\ \A x \in 1..n :
           /\ files[g[x]].kind = "skill"
           /\ skills[x].part = "skill" /\ skills[x].dir = files[g[x]].dir
           /\ \A y \in 1..n : x < y => g[x] < g[y]
      /\ \A i \in 1..m : files[i].kind = "skill" => \E x \in 1..n : g[x] = i
  BY <1>3 DEF Tells
<1>10. \A k \in 1..o : built[k].part # "skill"
  <2>1. \A k \in 1..o : head[k] \in H
    BY <1>6, ElementOfSeq
  <2> QED
    BY <1>6, <1>8, <2>1
<1>11. told = (o + 1)..(o + n)
  <2>1. ASSUME NEW k \in 1..(o + n), k > o PROVE built[k].part = "skill"
    <3>1. k - o \in 1..n /\ o + (k - o) = k
      BY <1>7, <2>1
    <3>2. built[o + (k - o)] = skills[k - o]
      BY <1>8, <3>1
    <3> QED
      BY <1>9, <3>1, <3>2
  <2>2. \A k \in 1..(o + n) : (k \in (o + 1)..(o + n) <=> k > o) /\ (k \in 1..o <=> ~(k > o))
    BY <1>7
  <2>3. \A k \in (o + 1)..(o + n) : k \in 1..(o + n)
    BY <1>7
  <2>4. told = {k \in 1..(o + n) : built[k].part = "skill"}
    BY <1>8
  <2> HIDE DEF told, o, n
  <2> QED
    BY <1>10, <2>1, <2>2, <2>3, <2>4
<1>12. Cardinality(told) = n
  <2>1. o + 1 \in Int /\ o + n \in Int
    BY <1>7
  <2>2. Cardinality((o + 1)..(o + n)) = IF o + 1 > o + n THEN 0 ELSE (o + n) - (o + 1) + 1
    BY <2>1, FS_Interval
  <2> HIDE DEF told
  <2> QED
    BY <1>7, <1>11, <2>2
<1>13. g \in [1..n -> due] /\ \A i \in due : \E x \in 1..n : g[x] = i
  BY <1>4, <1>9
<1>14. Cardinality(due) = n
  <2>1. \A x, y \in 1..n : g[x] = g[y] => x = y
    <3> SUFFICES ASSUME NEW x \in 1..n, NEW y \in 1..n, g[x] = g[y], x # y PROVE FALSE
      OBVIOUS
    <3>1. x < y \/ y < x
      BY <1>7
    <3>2. g[x] \in Int /\ g[y] \in Int
      BY <1>7, <1>9
    <3>3. g[x] < g[y] \/ g[y] < g[x]
      BY <1>9, <3>1
    <3> QED
      BY <3>2, <3>3
  <2>2. g \in Bijection(1..n, due)
    <3> HIDE DEF n
    <3>1. g \in Injection(1..n, due)
      BY <1>13, <2>1 DEF Injection, IsInjective
    <3>2. g \in Surjection(1..n, due)
      BY <1>13 DEF Surjection
    <3> QED
      BY <3>1, <3>2 DEF Bijection
  <2>3. ExistsBijection(1..n, due)
    BY <2>2 DEF ExistsBijection
  <2>4. IsFiniteSet(1..n) /\ Cardinality(1..n) = n
    <3> HIDE DEF n
    <3>1. 1 \in Int /\ n \in Int
      BY <1>7
    <3>2. IsFiniteSet(1..n) /\ Cardinality(1..n) = IF 1 > n THEN 0 ELSE n - 1 + 1
      BY <3>1, FS_Interval
    <3> QED
      BY <1>7, <3>2
  <2> HIDE DEF n
  <2> QED
    BY <2>3, <2>4, FS_Bijection
<1>15. {built[k].dir : k \in told} = {tree[i].dir : i \in due}
  <2>1. ASSUME NEW k \in told PROVE \E i \in due : built[k].dir = tree[i].dir
    <3>1. k - o \in 1..n /\ o + (k - o) = k
      BY <1>7, <1>11
    <3>2. built[k].dir = files[g[k - o]].dir
      BY <1>8, <1>9, <3>1
    <3>3. g[k - o] \in due /\ g[k - o] \in 1..m
      BY <1>9, <1>13, <3>1
    <3> QED
      BY <1>1, <3>2, <3>3
  <2>2. ASSUME NEW i \in due PROVE \E k \in told : built[k].dir = tree[i].dir
    <3>1. PICK x \in 1..n : g[x] = i
      BY <1>13
    <3>2. o + x \in told
      BY <1>7, <1>11
    <3>3. built[o + x].dir = files[i].dir
      BY <1>8, <1>9, <3>1
    <3>4. i \in 1..m
      BY <1>4
    <3> QED
      BY <1>1, <3>2, <3>3, <3>4
  <2> QED
    BY <2>1, <2>2
<1>16. ASSUME NEW i \in due, NEW j \in due, i < j
       PROVE  \E k, l \in told :
                k < l /\ built[k].dir = tree[i].dir /\ built[l].dir = tree[j].dir
  <2>1. PICK x \in 1..n : g[x] = i
    BY <1>13
  <2>2. PICK y \in 1..n : g[y] = j
    BY <1>13
  <2>3. i \in 1..m /\ j \in 1..m
    BY <1>4
  <2>4. x < y
    <3>1. ~(y < x) /\ x # y
      <4>1. y < x => j < i
        BY <1>9, <2>1, <2>2
      <4>2. x = y => i = j
        BY <2>1, <2>2
      <4> QED
        BY <1>7, <1>16, <2>3, <4>1, <4>2
    <3> QED
      BY <1>7, <3>1
  <2>5. o + x \in told /\ o + y \in told /\ o + x < o + y
    BY <1>7, <1>11, <2>4
  <2>6. built[o + x].dir = files[i].dir /\ built[o + y].dir = files[j].dir
    BY <1>8, <1>9, <2>1, <2>2
  <2>7. files[i] = tree[i] /\ files[j] = tree[j]
    BY <1>1, <2>3
  <2> QED
    BY <2>5, <2>6, <2>7
<1>17. due = {} <=> skills = <<>>
  <2>1. skills = <<>> <=> n = 0
    BY <1>2, EmptySeq
  <2>2. due = {} <=> n = 0
    <3>1. n = 0 => due = {}
      BY <1>13
    <3>2. n # 0 => 1 \in 1..n
      BY <1>7
    <3>3. n # 0 => g[1] \in due
      BY <1>13, <3>2
    <3> QED
      BY <3>1, <3>3
  <2> QED
    BY <2>1, <2>2
<1>18. Len(built) = Cardinality(told) + 1 + (IF PlanMode THEN 1 ELSE 0)
           + (IF found.agents = NoFile THEN 0 ELSE 1) + (IF due = {} THEN 0 ELSE 1)
  <2> DEFINE p == IF PlanMode THEN 1 ELSE 0
             q == IF found.agents = NoFile THEN 0 ELSE 1
             r == IF skills = <<>> THEN 0 ELSE 1
  <2>1. p \in Nat /\ q \in Nat /\ r \in Nat /\ o = 1 + p + q + r
    BY <1>5
  <2>2. r = IF due = {} THEN 0 ELSE 1
    BY <1>17
  <2>3. Len(built) = o + n /\ Cardinality(told) = n
    BY <1>8, <1>12
  <2> HIDE DEF p, q, r, o, n, told
  <2>4. Len(built) = Cardinality(told) + 1 + p + q + r
    BY <1>7, <2>1, <2>3
  <2> QED
    BY <2>2, <2>4 DEF p, q
<1>19. Cardinality(told) = Cardinality(due)
  BY <1>12, <1>14
<1> HIDE DEF told, o, n
<1>20. SkillsKept(found, built)
  BY <1>15, <1>16, <1>18, <1>19 DEF SkillsKept, told, tree, due
<1> QED
  BY <1>20 DEF built

(* For any tree of files, also with unreadable files and directories, one  *)
(* bad skill costs the prompt only itself.                                 *)
THEOREM SkillsSurvive == StartupSpec => []SkillsResilient
<1>1. StartupInit => SkillsResilient
  BY DEF StartupInit, SkillsResilient
<1>2. SkillsResilient /\ [StartupNext]_startupVars => SkillsResilient'
  <2> SUFFICES ASSUME SkillsResilient, [StartupNext]_startupVars PROVE SkillsResilient'
    OBVIOUS
  <2>1. ASSUME NEW d \in Disks, StartRun(d) PROVE SkillsResilient'
    <3>1. d.tree \in Seq(ToSet(d.tree))
      BY DisksAssumption
    <3>2. SkillsKept(d, Build(d))
      BY <3>1, SkillsTold
    <3>3. disk' = d /\ prompt' = Build(d)
      BY <2>1 DEF StartRun
    <3> QED
      BY <3>2, <3>3 DEF SkillsResilient
  <2>2. CASE UNCHANGED <<disk, prompt>>
    BY <2>2 DEF SkillsResilient
  <2> QED
    BY <2>1, <2>2 DEF StartupNext, startupVars
<1> QED
  BY <1>1, <1>2, PTL DEF StartupSpec

-----------------------------------------------------------------------------
(* What becomes of a skill's file.                                         *)
Fence == {<<"---">>, <<"---", "cr">>}

LEMMA Keywords ==
  /\ "---" \in Tokens \ Blank
  /\ "cr" \in Blank /\ "nl" \in Blank /\ "cr" \in Tokens /\ "nl" \in Tokens
  /\ "cr" # "nl" /\ "---" # "nl" /\ "---" # "cr"
<1>1. "---" \in Words
  BY PromptAssumption
<1>2. "---" \notin Blank
  BY <1>1, WordsAssumption DEF Blank
<1> QED
  BY <1>1, <1>2 DEF Tokens, Blank

(* What strings.ReplaceAll does with one token.                            *)
Put(x, d) == IF x = "${SKILL_DIR}" THEN d ELSE x

LEMMA PutBlank ==
  ASSUME NEW x, NEW d, d \notin Blank
  PROVE  Put(x, d) \in Blank <=> x \in Blank
<1>1. "${SKILL_DIR}" \notin Blank
  BY PromptAssumption, WordsAssumption DEF Blank
<1>2. CASE x = "${SKILL_DIR}"
  BY <1>1, <1>2, Zenon DEF Put
<1>3. CASE x # "${SKILL_DIR}"
  BY <1>3, Zenon DEF Put
<1> QED
  BY <1>2, <1>3, Zenon

LEMMA WithDirIs ==
  ASSUME NEW t \in Text, NEW d
  PROVE  /\ WithDir(t, d) \in Seq(Tokens \cup {d}) /\ Len(WithDir(t, d)) = Len(t)
         /\ \A k \in 1..Len(t) : WithDir(t, d)[k] = Put(t[k], d)
<1> DEFINE S == Tokens \cup {d}
           w == [i \in 1..Len(t) |-> Put(t[i], d)]
<1>1. Len(t) \in Nat /\ DOMAIN t = 1..Len(t) /\ \A k \in 1..Len(t) : t[k] \in Tokens
  BY LenProperties, ElementOfSeq DEF Text, Tokens
<1>2. WithDir(t, d) = w
  BY <1>1 DEF WithDir, Put
<1>3. \A k \in 1..Len(t) : w[k] \in S /\ w[k] = Put(t[k], d)
  BY <1>1 DEF Put
<1>4. w \in Seq(S) /\ Len(w) = Len(t)
  <2>1. w \in [1..Len(t) -> S]
    BY <1>3
  <2> HIDE DEF w, S
  <2> QED
    BY <1>1, <2>1
<1> QED
  BY <1>2, <1>3, <1>4

(* A directory is no white space, so that it does not matter which of the  *)
(* two is done first.                                                      *)
LEMMA TrimWithDir ==
  ASSUME NEW t \in Text, NEW d, d \notin Blank
  PROVE  TrimSpace(WithDir(t, d)) = WithDir(TrimSpace(t), d)
<1> DEFINE w == WithDir(t, d)
           n == Len(t)
           S == Tokens \cup {d}
<1>1. /\ n \in Nat /\ w \in Seq(S) /\ Len(w) = n
      /\ \A k \in 1..n : w[k] = Put(t[k], d)
  BY WithDirIs, LenProperties DEF Text
<1> HIDE DEF w, S
<1>2. ASSUME NEW k \in 1..n PROVE w[k] \in Blank <=> t[k] \in Blank
  BY <1>1, PutBlank
<1>3. CASE AllBlank(t)
  <2>1. AllBlank(w)
    BY <1>1, <1>2, <1>3 DEF AllBlank
  <2>2. TrimSpace(w) = <<>> /\ TrimSpace(t) = <<>> /\ WithDir(<<>>, d) = <<>>
    <3>1. <<>> \in Text
      BY TextConcat
    <3>2. WithDir(<<>>, d) \in Seq(S) /\ Len(WithDir(<<>>, d)) = 0
      BY <3>1, WithDirIs, EmptySeq DEF S
    <3> QED
      BY <1>3, <2>1, <3>2, TrimAll, EmptySeq
  <2> QED
    BY <2>2 DEF w
<1>4. CASE ~AllBlank(t)
  <2>1. PICK i \in 1..n : \E j \in i..n : Spanned(t, i, j)
    BY <1>1, <1>4, SpanExists
  <2>2. PICK j \in i..n : Spanned(t, i, j)
    BY <2>1
  <2>3. /\ i \in Nat /\ j \in Nat /\ 1 <= i /\ i <= j /\ j <= n
        /\ \A k \in i..j : k \in 1..n
    BY <1>1
  <2>4. Spanned(w, i, j)
    <3>1. w[i] \notin Blank /\ w[j] \notin Blank
      BY <1>2, <2>2, <2>3 DEF Spanned
    <3>2. ASSUME NEW k \in 1..(i - 1) PROVE w[k] \in Blank
      <4>1. k \in 1..n /\ t[k] \in Blank
        BY <1>1, <2>2, <2>3 DEF Spanned
      <4> QED
        BY <1>2, <4>1
    <3>3. ASSUME NEW k \in (j + 1)..n PROVE w[k] \in Blank
      <4>1. k \in 1..n /\ t[k] \in Blank
        BY <1>1, <2>2, <2>3 DEF Spanned
      <4> QED
        BY <1>2, <4>1
    <3> QED
      BY <1>1, <2>3, <3>1, <3>2, <3>3 DEF Spanned
  <2> DEFINE m == SubSeq(t, i, j)
             x == SubSeq(w, i, j)
             l == j - i + 1
  <2>5. TrimSpace(w) = x /\ TrimSpace(t) = m
    BY <1>1, <2>2, <2>4, TrimSpan
  <2>6. m \in Text /\ Len(m) = l /\ \A k \in 1..l : m[k] = t[i + k - 1]
    <3>1. \A k \in i..j : t[k] \in Words \cup Blank
      BY <2>3, ElementOfSeq DEF Text
    <3> QED
      BY <2>3, <3>1, SubSeqProperties DEF Text
  <2>7. x \in Seq(S) /\ Len(x) = l /\ \A k \in 1..l : x[k] = w[i + k - 1]
    <3>1. \A k \in i..j : w[k] \in S
      BY <1>1, <2>3, ElementOfSeq
    <3> QED
      BY <2>3, <3>1, SubSeqProperties
  <2>8. l \in Nat /\ \A k \in 1..l : i + k - 1 \in 1..n
    BY <2>3
  <2> HIDE DEF m, x, l, n
  <2>9. /\ WithDir(m, d) \in Seq(S) /\ Len(WithDir(m, d)) = l
        /\ \A k \in 1..l : WithDir(m, d)[k] = Put(m[k], d)
    BY <2>6, WithDirIs DEF S
  <2>10. ASSUME NEW k \in 1..l PROVE WithDir(m, d)[k] = x[k]
    <3>1. w[i + k - 1] = Put(t[i + k - 1], d)
      BY <1>1, <2>8
    <3> QED
      BY <2>6, <2>7, <2>9, <3>1
  <2>11. WithDir(m, d) = x
    BY <2>7, <2>9, <2>10, SeqEqual
  <2> QED
    BY <2>5, <2>11 DEF w
<1> QED
  BY <1>3, <1>4

LEMMA WithDirEnds ==
  ASSUME NEW s \in Text, NEW t \in Text, NEW d, EndOf(s, t)
  PROVE  IsSuffix(WithDir(s, d), WithDir(t, d))
<1> DEFINE a == WithDir(s, d)
           b == WithDir(t, d)
           S == Tokens \cup {d}
<1>1. /\ a \in Seq(S) /\ Len(a) = Len(s)
      /\ \A k \in 1..Len(s) : a[k] = Put(s[k], d)
  BY WithDirIs
<1>2. /\ b \in Seq(S) /\ Len(b) = Len(t)
      /\ \A k \in 1..Len(t) : b[k] = Put(t[k], d)
  BY WithDirIs
<1> HIDE DEF a, b, S
<1>3. Len(s) \in Nat /\ Len(t) \in Nat /\ Len(s) <= Len(t)
  BY LenProperties DEF EndOf, Text
<1>4. ASSUME NEW k \in 1..Len(s) PROVE a[k] = b[Len(t) - Len(s) + k]
  <2>1. Len(t) - Len(s) + k \in 1..Len(t) /\ s[k] = t[Len(t) - Len(s) + k]
    BY <1>3 DEF EndOf
  <2> QED
    BY <1>1, <1>2, <2>1
<1>5. EndOf(a, b)
  <2>1. Len(s) \in 0..Len(t)
    BY <1>3
  <2> QED
    BY <1>1, <1>2, <1>4, <2>1 DEF EndOf
<1>6. IsSuffix(a, b)
  BY <1>1, <1>2, <1>5, EndIsSuffix
<1> QED
  BY <1>6 DEF a, b

(* The first and the last line of what stands between the delimiters are   *)
(* what is left of the lines of the delimiters; they have no key.          *)
LEMMA NoKey ==
  ASSUME NEW l, TrimSpace(l) = <<>>, NEW key
  PROVE  ~HasKey(l, key)
<1>1. Len(<<key>>) = 1 /\ Len(<<>>) = 0
  OBVIOUS
<1> QED
  BY <1>1 DEF HasKey, IsPrefix

LEMMA FramedMetadata ==
  ASSUME NEW mid \in Seq(Text), NEW t \in Text, TrimSpace(t) = <<>>, NEW key, NEW default
  PROVE  Metadata(<<t>> \o Append(mid, <<>>), key, default) = Metadata(mid, key, default)
<1> DEFINE n == Len(mid)
           r == Append(mid, <<>>)
           ls == <<t>> \o r
           a == {i \in DOMAIN mid : HasKey(mid[i], key)}
           b == {i \in DOMAIN ls : HasKey(ls[i], key)}
<1>1. <<>> \in Text /\ TrimSpace(<<>>) = <<>>
  <2>1. AllBlank(<<>>)
    BY DEF AllBlank
  <2> QED
    BY <2>1, TextConcat, TrimAll
<1>2. n \in Nat /\ r \in Seq(Text) /\ Len(r) = n + 1 /\ r[n + 1] = <<>> /\ \A k \in 1..n : r[k] = mid[k]
  BY <1>1, AppendProperties, LenProperties
<1> HIDE DEF r
<1>3. <<t>> \in Seq(Text) /\ Len(<<t>>) = 1 /\ <<t>>[1] = t
  OBVIOUS
<1>4. /\ ls \in Seq(Text) /\ Len(ls) = 1 + (n + 1)
      /\ \A k \in 1..(1 + (n + 1)) : ls[k] = IF k <= 1 THEN <<t>>[k] ELSE r[k - 1]
  BY <1>2, <1>3, ConcatProperties
<1>5. DOMAIN mid = 1..n /\ DOMAIN ls = 1..(n + 2)
  <2>1. DOMAIN ls = 1..Len(ls) /\ 1 + (n + 1) = n + 2
    <3> HIDE DEF ls
    <3> QED
      BY <1>2, <1>4, LenProperties
  <2> QED
    BY <1>4, <2>1, LenProperties
<1> HIDE DEF ls, n
<1>6. ls[1] = t /\ ls[n + 2] = <<>> /\ \A k \in 1..n : ls[k + 1] = mid[k]
  <2>1. ls[1] = t
    <3>1. 1 \in 1..(1 + (n + 1))
      BY <1>2
    <3> QED
      BY <1>3, <1>4, <3>1
  <2>2. ls[n + 2] = <<>>
    <3>1. n + 2 \in 1..(1 + (n + 1)) /\ ~(n + 2 <= 1) /\ (n + 2) - 1 = n + 1
      BY <1>2
    <3> QED
      BY <1>2, <1>4, <3>1
  <2>3. ASSUME NEW k \in 1..n PROVE ls[k + 1] = mid[k]
    <3>1. k + 1 \in 1..(1 + (n + 1)) /\ ~(k + 1 <= 1) /\ (k + 1) - 1 = k
      BY <1>2
    <3> QED
      BY <1>2, <1>4, <3>1
  <2> QED
    BY <2>1, <2>2, <2>3
<1>7. ASSUME NEW i \in b PROVE i \in Nat /\ i - 1 \in a
  <2>1. i \in 1..(n + 2) /\ HasKey(ls[i], key) /\ i # 1 /\ i # n + 2
    BY <1>1, <1>5, <1>6, NoKey
  <2>2. i - 1 \in 1..n /\ (i - 1) + 1 = i
    BY <1>2, <2>1
  <2> QED
    BY <1>5, <1>6, <2>1, <2>2
<1>8. ASSUME NEW i \in a PROVE i \in Nat /\ i + 1 \in b
  <2>1. i \in 1..n /\ HasKey(mid[i], key) /\ i + 1 \in 1..(n + 2)
    BY <1>2, <1>5
  <2> QED
    BY <1>5, <1>6, <2>1
<1>9. a \in SUBSET (1..n) /\ b \in SUBSET (1..(n + 2)) /\ n + 2 \in Nat
  BY <1>2, <1>5
<1>10. /\ Metadata(mid, key, default) = IF a = {} THEN default ELSE Value(mid[Max(a)])
       /\ Metadata(ls, key, default) = IF b = {} THEN default ELSE Value(ls[Max(b)])
  BY DEF Metadata
<1>11. Max(a) \in a => mid[Max(a)] = ls[Max(a) + 1]
  BY <1>5, <1>6
<1> HIDE DEF a, b
<1>12. CASE a = {}
  BY <1>7, <1>10, <1>12 DEF ls, r
<1>13. CASE a # {}
  <2>1. b # {}
    BY <1>8, <1>13
  <2>2. Max(a) \in a /\ \A y \in a : Max(a) >= y
    BY <1>2, <1>9, <1>13, MaxIsMember
  <2>3. Max(b) \in b /\ \A y \in b : Max(b) >= y
    BY <1>9, <2>1, MaxIsMember
  <2>4. /\ Max(a) \in Nat /\ Max(b) \in Nat
        /\ Max(b) >= Max(a) + 1 /\ Max(a) >= Max(b) - 1
    BY <1>7, <1>8, <2>2, <2>3
  <2>5. Max(b) = Max(a) + 1
    BY ONLY <2>4
  <2> QED
    BY <1>10, <1>11, <1>13, <2>1, <2>2, <2>5 DEF ls, r
<1> QED
  BY <1>12, <1>13

-----------------------------------------------------------------------------
(* The loader takes a file apart by tokens.  A file begins with the        *)
(* delimiter; m follows it, and r follows the next.                        *)
Dashes == <<"---">>

Fenced(m, r) == (Dashes \o m) \o (Dashes \o r)

(* Where the file's two delimiters stand, and what is between and after.   *)
LEMMA PrefixOf ==
  ASSUME NEW S, NEW a \in Seq(S), NEW b \in Seq(S)
  PROVE  IsPrefix(a, a \o b) /\ SubSeq(a \o b, 1, Len(a)) = a
<1>1. <<>> \in Seq(S) /\ Len(a) \in Nat /\ Len(b) \in Nat
  BY EmptySeq, LenProperties
<1>2. (a \o <<>>) \o b \in Seq(S) /\ Parted((a \o <<>>) \o b, a, <<>>, b, Len(a), Len(a) + Len(<<>>))
  BY <1>1, Parts
<1>3. a \o <<>> = a /\ SubSeq(a, 1, Len(a)) = a /\ Len(a \o b) = Len(a) + Len(b)
  BY ConcatEmptySeq, SubSeqFull, ConcatProperties
<1>4. SubSeq(a \o b, 1, Len(a)) = a
  BY <1>2, <1>3 DEF Parted
<1> QED
  BY <1>1, <1>3, <1>4 DEF IsPrefix

LEMMA OfText ==
  \A t \in Text : t \in Seq(Tokens) /\ Len(t) \in Nat /\ DOMAIN t = 1..Len(t)
                    /\ \A k \in 1..Len(t) : t[k] \in Tokens
  BY LenProperties, ElementOfSeq DEF Text, Tokens

LEMMA Concatenated ==
  \A a, b \in Text :
    /\ a \o b \in Text /\ Len(a) \in Nat /\ Len(b) \in Nat /\ Len(a \o b) = Len(a) + Len(b)
    /\ \A k \in 1..(Len(a) + Len(b)) : (a \o b)[k] = IF k <= Len(a) THEN a[k] ELSE b[k - Len(a)]
  BY ConcatProperties, LenProperties DEF Text

LEMMA SecondDelimiter ==
  ASSUME NEW m \in Text, Delimiters(m) = {}, NEW r \in Text
  PROVE  /\ Fenced(m, r) \in Text /\ Len(m) \in Nat
         /\ Cardinality(Delimiters(Fenced(m, r))) > 1 /\ Min(Delimiters(Fenced(m, r)) \ {1}) = Len(m) + 2
         /\ SubSeq(Fenced(m, r), 2, Len(m) + 1) = m /\ SubSeq(Fenced(m, r), Len(m) + 3, Len(Fenced(m, r))) = r
<1> SUFFICES ASSUME NEW c, c = Fenced(m, r)
             PROVE  /\ c \in Text /\ Len(m) \in Nat
                    /\ Cardinality(Delimiters(c)) > 1 /\ Min(Delimiters(c) \ {1}) = Len(m) + 2
                    /\ SubSeq(c, 2, Len(m) + 1) = m /\ SubSeq(c, Len(m) + 3, Len(c)) = r
  OBVIOUS
<1> DEFINE d == Dashes
           a == d \o m
           b == d \o r
           l == Len(m)
           D == Delimiters(c)
<1>1. d \in Text /\ Len(d) = 1 /\ d[1] = "---"
  BY Keywords DEF Text, Tokens, Dashes
<1> HIDE DEF d
<1>2. /\ l \in Nat /\ Len(r) \in Nat /\ a \in Text /\ b \in Text /\ c \in Text
      /\ Len(a) = l + 1 /\ Len(b) = Len(r) + 1 /\ Len(c) = (l + 1) + (Len(r) + 1)
      /\ \A k \in 1..(1 + l) : a[k] = IF k <= 1 THEN d[k] ELSE m[k - 1]
      /\ \A k \in 1..(1 + Len(r)) : b[k] = IF k <= 1 THEN d[k] ELSE r[k - 1]
      /\ \A k \in 1..((l + 1) + (Len(r) + 1)) : c[k] = IF k <= l + 1 THEN a[k] ELSE b[k - (l + 1)]
  <2>1. /\ l \in Nat /\ Len(r) \in Nat /\ a \in Text /\ Len(a) = 1 + l
        /\ \A k \in 1..(1 + l) : a[k] = IF k <= 1 THEN d[k] ELSE m[k - 1]
    <3>1. /\ l \in Nat /\ Len(r) \in Nat /\ a \in Text /\ Len(a) = Len(d) + l
          /\ \A k \in 1..(Len(d) + l) : a[k] = IF k <= Len(d) THEN d[k] ELSE m[k - Len(d)]
      BY <1>1, Concatenated
    <3> HIDE DEF a, l
    <3> QED
      BY <1>1, <3>1
  <2>2. /\ b \in Text /\ Len(b) = 1 + Len(r)
        /\ \A k \in 1..(1 + Len(r)) : b[k] = IF k <= 1 THEN d[k] ELSE r[k - 1]
    <3>1. /\ b \in Text /\ Len(b) = Len(d) + Len(r)
          /\ \A k \in 1..(Len(d) + Len(r)) : b[k] = IF k <= Len(d) THEN d[k] ELSE r[k - Len(d)]
      BY <1>1, Concatenated
    <3> HIDE DEF b
    <3> QED
      BY <1>1, <3>1
  <2>3. c = a \o b
    BY DEF d, Fenced
  <2> HIDE DEF a, b
  <2>4. /\ c \in Text /\ Len(c) = Len(a) + Len(b)
        /\ \A k \in 1..(Len(a) + Len(b)) : c[k] = IF k <= Len(a) THEN a[k] ELSE b[k - Len(a)]
    <3>1. a \in Text /\ b \in Text
      BY <2>1, <2>2
    <3>2. /\ a \o b \in Text /\ Len(a \o b) = Len(a) + Len(b)
          /\ \A k \in 1..(Len(a) + Len(b)) : (a \o b)[k] = IF k <= Len(a) THEN a[k] ELSE b[k - Len(a)]
      BY <3>1, Concatenated
    <3> QED
      BY <2>3, <3>2, Zenon
  <2>5. Len(a) = l + 1 /\ Len(b) = Len(r) + 1
    BY <2>1, <2>2
  <2> QED
    BY <2>1, <2>2, <2>4, <2>5
<1>3. SubSeq(c, 2, l + 1) = m
  <2>1. Parted((d \o m) \o b, d, m, b, Len(d), Len(d) + Len(m))
    BY <1>1, <1>2, Parts DEF Text
  <2>2. Len(d) + 1 = 2 /\ Len(d) + Len(m) = l + 1
    BY <1>1, <1>2
  <2>3. c = (d \o m) \o b
    BY DEF d, Fenced
  <2> HIDE DEF b
  <2>4. SubSeq((d \o m) \o b, Len(d) + 1, Len(d) + Len(m)) = m
    BY <2>1 DEF Parted
  <2> QED
    BY <2>2, <2>3, <2>4
<1>4. SubSeq(c, l + 3, Len(c)) = r
  <2>1. Parted((a \o d) \o r, a, d, r, Len(a), Len(a) + Len(d))
    BY <1>1, <1>2, Parts DEF Text
  <2>2. (a \o d) \o r = c
    <3>1. c = a \o (d \o r)
      BY DEF d, Fenced
    <3> HIDE DEF a
    <3> QED
      BY <1>1, <1>2, <3>1, TextConcat
  <2>3. (Len(a) + Len(d)) + 1 = l + 3
    BY <1>1, <1>2
  <2> QED
    BY <2>1, <2>2, <2>3 DEF Parted
<1>5. c[1] = "---" /\ c[l + 2] = "---" /\ \A k \in 2..(l + 1) : c[k] # "---"
  <2>1. c[1] = d[1]
    <3>1. 1 \in 1..(1 + l) /\ 1 \in 1..((l + 1) + (Len(r) + 1)) /\ 1 <= l + 1 /\ 1 <= 1
      BY <1>2
    <3> HIDE DEF a, b, l
    <3> QED
      BY <1>2, <3>1
  <2>2. c[l + 2] = d[1]
    <3>1. /\ l + 2 \in 1..((l + 1) + (Len(r) + 1)) /\ ~(l + 2 <= l + 1) /\ (l + 2) - (l + 1) = 1
          /\ 1 \in 1..(1 + Len(r)) /\ 1 <= 1
      BY <1>2
    <3> HIDE DEF a, b, l
    <3> QED
      BY <1>2, <3>1
  <2>3. ASSUME NEW k \in 2..(l + 1) PROVE c[k] = m[k - 1] /\ k - 1 \in 1..l
    <3>1. /\ k \in 1..((l + 1) + (Len(r) + 1)) /\ k <= l + 1 /\ k \in 1..(1 + l)
          /\ ~(k <= 1) /\ k - 1 \in 1..l
      BY <1>2
    <3> HIDE DEF a, b, l
    <3> QED
      BY <1>2, <3>1
  <2>4. \A k \in 1..l : m[k] # "---"
    BY OfText DEF Delimiters
  <2> HIDE DEF a, b, l
  <2> QED
    BY <1>1, <2>1, <2>2, <2>3, <2>4
<1>6. D \in SUBSET (1..Len(c)) /\ 1 \in D /\ l + 2 \in D
  <2>1. 1 \in 1..Len(c) /\ l + 2 \in 1..Len(c) /\ DOMAIN c = 1..Len(c)
    BY <1>2, OfText
  <2> QED
    BY <1>5, <2>1 DEF Delimiters
<1>7. \A k \in D \ {1} : k >= l + 2
  <2>1. \A k \in D \ {1} : k \in 2..Len(c) /\ c[k] = "---"
    <3>1. \A k \in D : k \in 1..Len(c) /\ c[k] = "---"
      BY <1>6 DEF Delimiters
    <3> QED
      BY <1>2, <3>1
  <2>2. ASSUME NEW k \in D \ {1} PROVE k >= l + 2
    <3>1. k \in 2..Len(c) /\ k \notin 2..(l + 1)
      BY <1>5, <2>1, <2>2
    <3> HIDE DEF l, D, a, b
    <3> QED
      BY <1>2, <3>1
  <2> QED
    BY <2>2
<1> HIDE DEF D
<1>8. Min(D \ {1}) = l + 2
  <2>1. l + 2 \in D \ {1} /\ D \ {1} \in SUBSET Nat
    BY <1>2, <1>6
  <2>2. Min(D \ {1}) \in D \ {1} /\ \A y \in D \ {1} : Min(D \ {1}) <= y
    BY <2>1, MinIsMember
  <2>3. Min(D \ {1}) >= l + 2 /\ Min(D \ {1}) <= l + 2 /\ Min(D \ {1}) \in Nat
    BY <1>7, <2>1, <2>2
  <2> QED
    BY ONLY <1>2, <2>3
<1>9. Cardinality(D) > 1
  <2>1. {1, l + 2} \subseteq D /\ IsFiniteSet(D)
    <3>1. IsFiniteSet(1..Len(c))
      BY <1>2, FS_Interval
    <3> QED
      BY <1>6, <3>1, FS_Subset
  <2>2. Cardinality({1, l + 2}) <= Cardinality(D) /\ IsFiniteSet({1, l + 2}) /\ Cardinality(D) \in Nat
    BY <2>1, FS_Subset, FS_CardinalityType
  <2>3. Cardinality({1, l + 2}) = 2
    <3> DEFINE x == l + 2
    <3>1. x # 1
      BY <1>2
    <3> HIDE DEF x
    <3>2. IsFiniteSet({1}) /\ Cardinality({1}) = 1
      BY FS_Singleton
    <3>3. {1, x} = {1} \cup {x} /\ x \notin {1}
      BY <3>1
    <3>4. Cardinality({1} \cup {x}) = Cardinality({1}) + 1
      BY <3>2, <3>3, FS_AddElement
    <3>5. Cardinality({1} \cup {x}) = 2
      BY ONLY <3>2, <3>4
    <3>6. Cardinality({1, x}) = 2
      BY <3>3, <3>5, Zenon
    <3> QED
      BY <3>6 DEF x
  <2> QED
    BY <2>2, <2>3
<1> QED
  BY <1>2, <1>3, <1>4, <1>8, <1>9 DEF D

(* strings.SplitN in three.                                                *)
LEMMA ParsedBetween ==
  ASSUME NEW m \in Text, Delimiters(m) = {}, NEW r \in Text,
         NEW dir, Opens(Fenced(m, r))
  PROVE  ParseSkillMD(Fenced(m, r), dir) =
           Skill(Metadata(Lines(m), "name:", Unnamed),
                 Metadata(Lines(m), "description:", Undescribed), TrimSpace(r), dir)
<1> DEFINE c == Fenced(m, r)
<1>1. /\ Cardinality(Delimiters(c)) > 1 /\ Min(Delimiters(c) \ {1}) = Len(m) + 2
      /\ SubSeq(c, 2, Len(m) + 1) = m /\ SubSeq(c, Len(m) + 3, Len(c)) = r /\ Len(m) \in Nat
  BY SecondDelimiter
<1>2. (Len(m) + 2) - 1 = Len(m) + 1 /\ (Len(m) + 2) + 1 = Len(m) + 3
  BY <1>1
<1> QED
  BY <1>1, <1>2 DEF ParseSkillMD

-----------------------------------------------------------------------------
(* A line that is a delimiter, without it.                                 *)
Ending == {<<>>, <<"cr">>}

LEMMA EndingIs ==
  ASSUME NEW t \in Ending
  PROVE  /\ t \in Line /\ t \in Text /\ t \in Seq(Tokens \ {"---"}) /\ TrimSpace(t) = <<>>
         /\ \A r \in Text : t \o r \in Text /\ TrimSpace(t \o r) = TrimSpace(r)
<1>1. <<>> \in Line /\ <<"cr">> \in Line
  BY Keywords, EmptySeq DEF Line
<1>2. t \in Line /\ t \in Text
  BY <1>1, LineIsText DEF Ending
<1>3. t \in Seq(Tokens \ {"---"})
  <2>1. "cr" \in Tokens \ {"---"}
    BY Keywords
  <2> DEFINE W == Tokens \ {"---"}
  <2> HIDE DEF W
  <2>2. <<>> \in Seq(W) /\ <<"cr">> \in Seq(W)
    BY <2>1, EmptySeq DEF W
  <2> QED
    BY <2>2 DEF Ending, W
<1>4. TrimSpace(<<>>) = <<>>
  <2>1. AllBlank(<<>>)
    BY DEF AllBlank
  <2> QED
    BY <2>1, TrimAll
<1>5. ASSUME NEW r \in Text PROVE TrimSpace(<<"cr">> \o r) = TrimSpace(r) /\ <<>> \o r = r
  BY Keywords, TrimFront, TextConcat
<1>6. TrimSpace(t) = <<>>
  <2>1. <<"cr">> \o <<>> = <<"cr">> /\ <<>> \in Text
    BY TextConcat
  <2>2. TrimSpace(<<"cr">>) = <<>>
    BY <1>4, <1>5, <2>1
  <2> QED
    BY <1>4, <2>2 DEF Ending
<1>7. ASSUME NEW r \in Text PROVE t \o r \in Text /\ TrimSpace(t \o r) = TrimSpace(r)
  BY <1>2, <1>5, TextConcat DEF Ending
<1> QED
  BY <1>2, <1>3, <1>6, <1>7

(* Short sequences.                                                        *)
LEMMA Pair ==
  ASSUME NEW S, NEW x \in S, NEW y \in S
  PROVE  Append(<<x>>, y) = <<x, y>>
<1>1. <<x>> \in Seq(S) /\ Len(<<x>>) = 1 /\ <<x>>[1] = x
  BY OneOf
<1>2. <<x, y>> \in Seq(S) /\ Len(<<x, y>>) = 2 /\ <<x, y>>[1] = x /\ <<x, y>>[2] = y
  OBVIOUS
<1> DEFINE a == Append(<<x>>, y)
           p == <<x, y>>
<1>3. /\ a \in Seq(S) /\ Len(a) = Len(<<x>>) + 1 /\ a[Len(<<x>>) + 1] = y
      /\ \A k \in 1..Len(<<x>>) : a[k] = <<x>>[k]
  BY <1>1, AppendProperties
<1>4. 1 \in 1..Len(<<x>>) /\ Len(<<x>>) + 1 = 2
  BY <1>1
<1>5. Len(a) = 2 /\ a[1] = x /\ a[2] = y
  BY <1>1, <1>3, <1>4
<1> HIDE DEF a, p
<1>6. p \in Seq(S) /\ Len(p) = 2 /\ p[1] = x /\ p[2] = y
  BY <1>2 DEF p
<1>7. \A k \in 1..2 : k = 1 \/ k = 2
  OBVIOUS
<1>8. a = p
  BY <1>3, <1>5, <1>6, <1>7, SeqEqual
<1> QED
  BY <1>8 DEF a, p

LEMMA Pairs ==
  ASSUME NEW x, NEW y, NEW z
  PROVE  /\ <<x>> \o <<>> = <<x>> /\ <<x>> \o <<y>> = <<x, y>>
         /\ <<x>> \o <<y, z>> = (<<x>> \o <<y>>) \o <<z>>
         /\ <<x>> \o <<y>> = (<<x>> \o <<>>) \o <<y>>
<1> DEFINE S == {x, y, z}
<1>1. x \in S /\ y \in S /\ z \in S
  OBVIOUS
<1> HIDE DEF S
<1>2. <<x>> \in Seq(S) /\ <<y>> \in Seq(S) /\ <<z>> \in Seq(S)
  BY <1>1, OneOf
<1>3. \A s \in Seq(S), e \in S : Append(s, e) = s \o <<e>>
  BY AppendIsConcat
<1>4. Append(<<x>>, y) = <<x, y>> /\ Append(<<y>>, z) = <<y, z>>
  BY <1>1, Pair
<1>5. <<x>> \o <<>> = <<x>>
  BY <1>2, ConcatEmptySeq
<1>6. <<x>> \o <<y>> = <<x, y>> /\ <<y>> \o <<z>> = <<y, z>>
  BY <1>1, <1>2, <1>3, <1>4
<1>7. <<x>> \o (<<y>> \o <<z>>) = (<<x>> \o <<y>>) \o <<z>>
  BY <1>2, ConcatAssociative
<1> QED
  BY <1>5, <1>6, <1>7, Zenon

LEMMA FenceIs ==
  /\ Dashes \in Text /\ \A l \in Fence : \E t \in Ending : l = Dashes \o t
  /\ \A t \in Ending : Dashes \o t \in Fence /\ Dashes \o t \in Line
<1>1. Dashes \in Line
  BY Keywords DEF Dashes, Line
<1>2. Dashes \o <<>> = <<"---">> /\ Dashes \o <<"cr">> = <<"---", "cr">>
  BY Pairs, Zenon DEF Dashes
<1>3. ASSUME NEW t \in Ending PROVE Dashes \o t \in Line
  BY <1>1, EndingIs, ConcatProperties DEF Line
<1> QED
  BY <1>1, <1>2, <1>3, LineIsText DEF Fence, Ending

(* How a file begins that has a frontmatter.                               *)
LEMMA OpensWith ==
  ASSUME NEW c \in Text
  PROVE  Opens(c) <=> \E t \in Ending, r \in Text : c = ((Dashes \o t) \o <<"nl">>) \o r
<1>1. /\ Opens(c) <=> \E t \in Ending : IsPrefix((Dashes \o t) \o <<"nl">>, c)
  <2>1. Opens(c) <=> \/ IsPrefix(<<"---">> \o <<"nl">>, c)
                     \/ IsPrefix(<<"---">> \o <<"cr", "nl">>, c)
    BY Zenon DEF Opens
  <2>2. /\ <<"---">> \o <<"nl">> = (Dashes \o <<>>) \o <<"nl">>
        /\ <<"---">> \o <<"cr", "nl">> = (Dashes \o <<"cr">>) \o <<"nl">>
    <3>1. <<"---">> \o <<"nl">> = (<<"---">> \o <<>>) \o <<"nl">>
      BY Pairs, Zenon
    <3>2. <<"---">> \o <<"cr", "nl">> = (<<"---">> \o <<"cr">>) \o <<"nl">>
      BY Pairs
    <3> QED
      BY <3>1, <3>2, Zenon DEF Dashes
  <2> QED
    BY <2>1, <2>2, Zenon DEF Ending
<1>2. ASSUME NEW t \in Ending, NEW r \in Text, c = ((Dashes \o t) \o <<"nl">>) \o r
      PROVE  IsPrefix((Dashes \o t) \o <<"nl">>, c)
  <2> DEFINE p == (Dashes \o t) \o <<"nl">>
  <2>1. p \in Text
    BY FenceIs, LineIsText, TextConcat
  <2> HIDE DEF p
  <2>2. IsPrefix(p, p \o r)
    BY <2>1, PrefixOf DEF Text
  <2> QED
    BY <1>2, <2>2 DEF p
<1>3. ASSUME NEW t \in Ending, IsPrefix((Dashes \o t) \o <<"nl">>, c)
      PROVE  \E r \in Text : c = ((Dashes \o t) \o <<"nl">>) \o r
  <2> DEFINE p == (Dashes \o t) \o <<"nl">>
             l == Len(p)
             r == SubSeq(c, l + 1, Len(c))
  <2>1. p \in Text
    BY FenceIs, LineIsText, TextConcat
  <2>2. IsPrefix(p, c)
    BY <1>3
  <2> HIDE DEF p
  <2>3. /\ l \in Nat /\ Len(c) \in Nat /\ l <= Len(c)
        /\ SubSeq(p, 1, l) = p /\ SubSeq(p, 1, l) = SubSeq(c, 1, l)
    BY <2>1, <2>2, LenProperties, SubSeqFull DEF Text, IsPrefix
  <2>4. l + 1 \in 1..(Len(c) + 1) /\ Len(c) \in ((l + 1) - 1)..Len(c) /\ (l + 1) - 1 = l
    BY <2>3
  <2>5. r \in Text
    BY <2>4, ThreeParts
  <2>6. 1 \in 1..(Len(c) + 1) /\ l \in (1 - 1)..Len(c) /\ Len(c) \in l..Len(c)
    BY <2>3
  <2>7. SubSeq(c, 1, l) \o r = SubSeq(c, 1, Len(c))
    BY <2>6, ConcatAdjacentSubSeq DEF Text
  <2>8. c = p \o r
    BY <2>3, <2>7, SubSeqFull DEF Text
  <2> QED
    BY <2>5, <2>8 DEF p
<1> QED
  BY <1>1, <1>2, <1>3, Zenon

(* The closing delimiter of a frontmatter, by lines.                       *)
LEMMA ClosingFence ==
  ASSUME NEW ls \in Seq(Text), HasFrontmatter(ls)
  PROVE  CloseFence(ls) \in 2..Len(ls) /\ ls[CloseFence(ls)] \in Fence /\ ls[1] \in Fence
<1> DEFINE F == Fences(ls)
<1>1. /\ F \in SUBSET (1..Len(ls)) /\ Len(ls) \in Nat /\ 1 \in F /\ Cardinality(F) > 1
      /\ \A i \in F : ls[i] \in Fence
  <2>1. DOMAIN ls = 1..Len(ls) /\ Len(ls) \in Nat
    BY LenProperties
  <2> QED
    BY <2>1 DEF Fences, HasFrontmatter, Fence
<1> HIDE DEF F
<1>2. F \ {1} # {}
  <2>1. SUFFICES ASSUME F = {1} PROVE FALSE
    BY <1>1
  <2>2. Cardinality(F) = 1
    BY <2>1, FS_Singleton
  <2> QED
    BY <1>1, <2>2
<1>3. Min(F \ {1}) \in F \ {1}
  <2>1. F \ {1} \in SUBSET Nat
    BY <1>1
  <2> QED
    BY <1>2, <2>1, MinIsMember
<1>4. CloseFence(ls) \in F \ {1}
  BY <1>3 DEF CloseFence, F
<1>5. CloseFence(ls) \in 1..Len(ls) /\ CloseFence(ls) # 1 /\ ls[CloseFence(ls)] \in Fence
  BY <1>1, <1>4
<1>6. ls[1] \in Fence
  BY <1>1
<1>7. CloseFence(ls) \in 2..Len(ls)
  BY ONLY <1>1, <1>5
<1> QED
  BY <1>5, <1>6, <1>7

(* What SubSeq cuts out.                                                   *)
LEMMA Cut ==
  ASSUME NEW S, NEW s \in Seq(S), NEW i \in 1..(Len(s) + 1), NEW j \in (i - 1)..Len(s)
  PROVE  /\ SubSeq(s, i, j) \in Seq(S) /\ Len(SubSeq(s, i, j)) = j - i + 1
         /\ \A k \in 1..(j - i + 1) : SubSeq(s, i, j)[k] = s[i + k - 1]
<1>1. /\ Len(s) \in Nat /\ i \in Int /\ j \in Int
      /\ (IF i <= j THEN j - i + 1 ELSE 0) = j - i + 1 /\ \A k \in i..j : k \in 1..Len(s)
  BY LenProperties
<1>2. \A k \in i..j : s[k] \in S
  BY <1>1, ElementOfSeq
<1> QED
  BY <1>1, <1>2, SubSeqProperties

(* The lines between the delimiters as the loader sees them: what is left  *)
(* of the first delimiter's line stands before, and nothing after.         *)
Frame(t, mid) == <<t>> \o Append(mid, <<>>)

LEMMA BeforeIs ==
  ASSUME NEW t \in Text, NEW mid \in Seq(Text)
  PROVE  /\ Frame(t, mid) \in Seq(Text) \ {<<>>} /\ Joined(Frame(t, mid)) \in Text
         /\ \E x \in Text : Joined(Frame(t, mid)) = (t \o <<"nl">>) \o x
         /\ Before(<<Dashes \o t>> \o mid) = Dashes \o Joined(Frame(t, mid))
<1> DEFINE d == Dashes
           r == Append(mid, <<>>)
           x == Joined(r)
           nl == <<"nl">>
<1>1. d \in Text /\ d \o t \in Text /\ <<>> \in Text /\ nl \in Text
  BY FenceIs, TextConcat
<1>2. r \in Seq(Text) /\ r # <<>> /\ r = mid \o <<<<>>>> /\ x \in Text
  <2>1. r \in Seq(Text) /\ r # <<>>
    BY <1>1, AppendProperties
  <2>2. r = mid \o <<<<>>>>
    BY <1>1, AppendIsConcat
  <2> HIDE DEF r
  <2> QED
    BY <2>1, <2>2, JoinedType
<1> HIDE DEF d, nl, x, r
<1>3. ASSUME NEW l \in Text
      PROVE  /\ <<l>> \in Seq(Text) /\ <<l>> # <<>> /\ Joined(<<l>>) = l
             /\ <<l>> \o r \in Seq(Text) /\ <<l>> \o r # <<>>
             /\ Joined(<<l>> \o r) = (l \o nl) \o x
  <2>1. <<l>> \in Seq(Text) /\ <<l>> # <<>> /\ Joined(<<l>>) = l
    BY OneOf, JoinOne
  <2>2. <<l>> \o r \in Seq(Text) /\ <<l>> \o r # <<>>
    BY <1>2, <2>1, ConcatProperties, ConcatEqualIffEmpty
  <2>3. Joined(<<l>> \o r) = JoinStep(l, x)
    BY <1>2, <2>1, JoinConcat DEF x
  <2> QED
    BY <2>1, <2>2, <2>3 DEF JoinStep, nl
<1>4. Joined(Frame(t, mid)) = (t \o nl) \o x /\ Frame(t, mid) = <<t>> \o r
  BY <1>3 DEF Frame, r
<1>5. Before(<<d \o t>> \o mid) = ((d \o t) \o nl) \o x
  <2> DEFINE u == <<d \o t>> \o mid
  <2>1. <<d \o t>> \in Seq(Text) /\ <<d \o t>> # <<>>
    BY <1>1, <1>3
  <2>2. u \in Seq(Text) /\ u # <<>>
    BY <2>1, ConcatProperties, ConcatEqualIffEmpty
  <2>3. Append(u, <<>>) = <<d \o t>> \o r
    <3>1. u \o <<<<>>>> = <<d \o t>> \o (mid \o <<<<>>>>)
      BY <1>1, <1>3, <2>1, ConcatAssociative
    <3> HIDE DEF u
    <3>2. Append(u, <<>>) = u \o <<<<>>>>
      BY <1>1, <2>2, AppendIsConcat
    <3> QED
      BY <1>2, <3>1, <3>2
  <2> HIDE DEF u
  <2>4. Joined(Append(u, <<>>)) = Joined(u) \o nl
    <3>1. Joined(Append(u, <<>>)) = (Joined(u) \o nl) \o <<>>
      BY <1>1, <2>2, JoinAppend DEF JoinStep, nl
    <3>2. Joined(u) \o nl \in Text
      BY <1>1, <2>2, JoinedType, TextConcat
    <3> QED
      BY <3>1, <3>2, TextConcat
  <2>5. Before(u) = Joined(u) \o nl
    BY <2>2 DEF Before, nl
  <2> QED
    BY <1>1, <1>3, <2>3, <2>4, <2>5 DEF u
<1>6. ((d \o t) \o nl) \o x = d \o ((t \o nl) \o x) /\ (t \o nl) \o x \in Text
  <2> DEFINE y == t \o nl
  <2>1. (d \o t) \o nl = d \o y /\ y \in Text
    BY <1>1, TextConcat
  <2> HIDE DEF y
  <2>2. (d \o y) \o x = d \o (y \o x) /\ y \o x \in Text
    BY <1>1, <1>2, <2>1, TextConcat
  <2> QED
    BY <2>1, <2>2 DEF y
<1>7. Joined(Frame(t, mid)) \in Text
  BY <1>4, <1>6
<1>8. Before(<<d \o t>> \o mid) = d \o Joined(Frame(t, mid))
  BY <1>4, <1>5, <1>6
<1>9. Frame(t, mid) \in Seq(Text) \ {<<>>}
  BY <1>3, <1>4
<1> QED
  BY <1>2, <1>4, <1>7, <1>8, <1>9 DEF d, nl

(* No delimiter stands in a text of other tokens.                          *)
LEMMA CleanText ==
  ASSUME NEW t \in Text
  PROVE  Delimiters(t) = {} <=> t \in Seq(Tokens \ {"---"})
<1> DEFINE W == Tokens \ {"---"}
           n == Len(t)
<1>1. n \in Nat /\ DOMAIN t = 1..n /\ \A k \in 1..n : t[k] \in Tokens
  BY OfText
<1>2. ASSUME Delimiters(t) = {} PROVE t \in Seq(W)
  <2>1. \A k \in 1..n : t[k] \in W
    BY <1>1, <1>2 DEF Delimiters
  <2>2. SubSeq(t, 1, n) \in Seq(W)
    <3> HIDE DEF W, n
    <3> QED
      BY <1>1, <2>1, SubSeqProperties
  <2> QED
    BY <2>2, SubSeqFull DEF Text
<1>3. ASSUME t \in Seq(W) PROVE Delimiters(t) = {}
  <2>1. \A k \in 1..n : t[k] \in W
    <3> HIDE DEF W
    <3> QED
      BY <1>3, ElementOfSeq
  <2> QED
    BY <1>1, <2>1 DEF Delimiters
<1> QED
  BY <1>2, <1>3

(* A file with a frontmatter in lines is one with a frontmatter in tokens: *)
(* what is before, between and after its delimiters.                       *)
LEMMA FramedFile ==
  ASSUME NEW c \in Text, HasFrontmatter(Lines(c))
  PROVE  LET ls  == Lines(c)
             mid == SubSeq(ls, 2, CloseFence(ls) - 1)
             v   == SubSeq(ls, CloseFence(ls) + 1, Len(ls))
         IN  /\ mid \in Seq(Line) /\ v \in Seq(Line)
             /\ \A i \in 1..Len(mid) : mid[i] = ls[i + 1] /\ i + 1 \in 2..(CloseFence(ls) - 1)
             /\ \E t, e \in Ending :
                  c = Fenced(Joined(Frame(t, mid)), e \o After(v))
<1> DEFINE ls == Lines(c)
           n == Len(ls)
           k == CloseFence(ls)
           mid == SubSeq(ls, 2, k - 1)
           u == SubSeq(ls, 1, k - 1)
           v == SubSeq(ls, k + 1, n)
<1>1. ls \in Seq(Line) /\ ls \in Seq(Text) /\ ls # <<>> /\ n \in Nat /\ Joined(ls) = c
  <2>1. ls \in Seq(Line) /\ ls # <<>> /\ ls \in Seq(Text) /\ Joined(ls) = c
    BY LinesAreLines, LinesAppend, JoinedLines
  <2> HIDE DEF ls
  <2> QED
    BY <2>1, LenProperties
<1>2. k \in 2..n /\ ls[k] \in Fence /\ ls[1] \in Fence
  <2>1. HasFrontmatter(ls)
    OBVIOUS
  <2> HIDE DEF ls
  <2> QED
    BY <1>1, <2>1, ClosingFence
<1> HIDE DEF ls, k
<1>3. PICK t \in Ending : ls[1] = Dashes \o t
  BY <1>2, FenceIs
<1>4. PICK e \in Ending : ls[k] = Dashes \o e
  BY <1>2, FenceIs
<1>5. /\ 2 \in 1..(n + 1) /\ k - 1 \in (2 - 1)..n /\ k + 1 \in 1..(n + 1) /\ n \in ((k + 1) - 1)..n
      /\ (k - 1) - 2 + 1 = k - 2 /\ 1 \in 1..n /\ k - 1 \in 1..n /\ k \in 1..n /\ k \in (1 - 1)..n
      /\ n \in k..n /\ 1 \in 1..(n + 1) /\ 1 + 1 = 2 /\ k \in Nat
  BY ONLY <1>1, <1>2
<1>6. /\ mid \in Seq(Line) /\ Len(mid) = k - 2
      /\ \A i \in 1..(k - 2) : mid[i] = ls[2 + i - 1]
  <2>1. /\ SubSeq(ls, 2, k - 1) \in Seq(Line) /\ Len(SubSeq(ls, 2, k - 1)) = (k - 1) - 2 + 1
        /\ \A i \in 1..((k - 1) - 2 + 1) : SubSeq(ls, 2, k - 1)[i] = ls[2 + i - 1]
    BY <1>1, <1>5, Cut
  <2> QED
    BY <1>5, <2>1
<1>7. v \in Seq(Line)
  BY <1>1, <1>5, Cut
<1>8. mid \in Seq(Text) /\ v \in Seq(Text)
  <2>1. Line \subseteq Text
    BY LineIsText
  <2> HIDE DEF mid, v
  <2> QED
    BY <1>6, <1>7, <2>1, SeqMonotonic
<1>9. u = <<ls[1]>> \o mid
  <2>1. k - 1 \in 1..n
    BY <1>5
  <2>2. SubSeq(ls, 1, k - 1) = <<ls[1]>> \o SubSeq(ls, 1 + 1, k - 1)
    BY <1>1, <1>5, <2>1, SubSeqRecursiveFirst
  <2> QED
    BY <1>5, <2>2
<1>10. ls = (u \o <<ls[k]>>) \o v
  <2>1. SubSeq(ls, 1, k) = u \o <<ls[k]>>
    BY <1>1, <1>5, SubSeqRecursiveSecond
  <2>2. SubSeq(ls, 1, k) \o v = SubSeq(ls, 1, n)
    BY <1>1, <1>5, ConcatAdjacentSubSeq
  <2>3. SubSeq(ls, 1, n) = ls
    BY <1>1, SubSeqFull
  <2> QED
    BY <2>1, <2>2, <2>3
<1> DEFINE M == Joined(Frame(t, mid))
           R == e \o After(v)
<1>11. /\ t \in Text /\ e \in Text /\ Dashes \in Text /\ Dashes \o t \in Text /\ Dashes \o e \in Text
  BY EndingIs, FenceIs, TextConcat
<1>12. u \in Seq(Text) /\ <<ls[k]>> \in Seq(Text) \ {<<>>} /\ Joined(<<ls[k]>>) = ls[k]
  <2>1. <<ls[1]>> \in Seq(Text) /\ <<ls[k]>> \in Seq(Text) /\ <<ls[k]>> # <<>>
    BY <1>3, <1>4, <1>11, OneOf
  <2> HIDE DEF u, mid
  <2>2. u \in Seq(Text)
    BY <1>8, <1>9, <2>1, ConcatProperties
  <2> QED
    BY <1>4, <1>11, <2>1, <2>2, JoinOne
<1> HIDE DEF u, v, mid
<1>13. /\ Before(u) \in Text /\ After(v) \in Text
       /\ c = (Before(u) \o ls[k]) \o After(v)
  <2>1. /\ Before(u) \in Text /\ After(v) \in Text
        /\ Joined(u \o <<ls[k]>> \o v) = (Before(u) \o Joined(<<ls[k]>>)) \o After(v)
    BY <1>8, <1>12, JoinMidst
  <2> QED
    BY <1>1, <1>10, <1>12, <2>1
<1>14. Before(u) = Dashes \o M /\ M \in Text
  BY <1>3, <1>8, <1>9, <1>11, BeforeIs
<1> HIDE DEF M
<1>15. c = Fenced(M, R)
  <2> DEFINE w == Dashes \o M
             y == Dashes \o e
             z == After(v)
  <2>1. w \in Text /\ y \in Text /\ z \in Text
    BY <1>11, <1>13, <1>14
  <2>2. c = (w \o y) \o z
    BY <1>4, <1>13, <1>14
  <2> HIDE DEF w, y, z
  <2>3. y \o z = Dashes \o (e \o z)
    <3>1. Dashes \in Text /\ e \in Text /\ z \in Text
      BY <1>11, <2>1
    <3>2. (Dashes \o e) \o z = Dashes \o (e \o z)
      BY ONLY <3>1, TextConcat
    <3> QED
      BY <3>2 DEF y
  <2>4. (w \o y) \o z = w \o (y \o z)
    BY <2>1, TextConcat
  <2> QED
    BY <2>2, <2>3, <2>4 DEF Fenced, w, z
<1>16. \A i \in 1..Len(mid) : mid[i] = ls[i + 1] /\ i + 1 \in 2..(k - 1)
  <2> SUFFICES ASSUME NEW i \in 1..Len(mid)
               PROVE  mid[i] = ls[i + 1] /\ i + 1 \in 2..(k - 1)
    OBVIOUS
  <2>1. i \in 1..(k - 2) /\ 2 + i - 1 = i + 1 /\ i + 1 \in 2..(k - 1)
    BY <1>5, <1>6
  <2>2. mid[i] = ls[2 + i - 1]
    BY <1>6, <2>1
  <2> QED
    BY <2>1, <2>2
<1>17. \E t1, e1 \in Ending : c = Fenced(Joined(Frame(t1, mid)), e1 \o After(v))
  BY <1>15 DEF M
<1> QED
  BY <1>6, <1>7, <1>16, <1>17 DEF ls, k, mid, v

-----------------------------------------------------------------------------
LEMMA FencedOpens ==
  ASSUME NEW t \in Ending, NEW mid \in Seq(Text), NEW r \in Text
  PROVE  /\ Fenced(Joined(Frame(t, mid)), r) \in Text
         /\ Opens(Fenced(Joined(Frame(t, mid)), r))
<1> DEFINE m == Joined(Frame(t, mid))
           d == Dashes
           nl == <<"nl">>
           b == d \o r
           tn == t \o nl
<1>1. d \in Text /\ t \in Text /\ nl \in Text /\ tn \in Text /\ b \in Text
  BY EndingIs, FenceIs, TextConcat
<1>2. PICK x \in Text : m = tn \o x
  BY <1>1, BeforeIs
<1> HIDE DEF m
<1>3. Fenced(m, r) = (d \o (tn \o x)) \o b
  BY <1>2 DEF Fenced
<1> HIDE DEF d, nl, b
<1>4. (d \o t) \o nl = d \o tn /\ d \o t \in Text
  BY ONLY <1>1, TextConcat
<1> HIDE DEF tn
<1>5. d \o tn \in Text /\ d \o (tn \o x) = (d \o tn) \o x
  BY ONLY <1>1, <1>2, TextConcat
<1> DEFINE y == d \o tn
<1>6. y \in Text
  BY <1>5
<1> HIDE DEF y
<1>7. (y \o x) \o b = y \o (x \o b) /\ x \o b \in Text /\ y \o (x \o b) \in Text
  <2>1. x \in Text /\ b \in Text
    BY <1>1, <1>2
  <2> DEFINE z == x \o b
  <2>2. (y \o x) \o b = y \o z /\ z \in Text
    BY ONLY <1>6, <2>1, TextConcat
  <2> HIDE DEF z
  <2>3. y \o z \in Text
    BY ONLY <1>6, <2>2, TextConcat
  <2> QED
    BY <2>2, <2>3 DEF z
<1>8. Fenced(m, r) = ((d \o t) \o nl) \o (x \o b) /\ Fenced(m, r) \in Text
  BY <1>3, <1>4, <1>5, <1>7 DEF y
<1>9. Opens(Fenced(m, r))
  <2>1. \E a \in Ending, s \in Text : Fenced(m, r) = ((Dashes \o a) \o <<"nl">>) \o s
    BY <1>7, <1>8, Zenon DEF d, nl
  <2> QED
    BY <1>8, <2>1, OpensWith
<1> QED
  BY <1>8, <1>9 DEF m

(* Where the rule by lines finds a frontmatter, the loader finds the same. *)
LEMMA DescribedByLines ==
  ASSUME NEW c \in Text, HasFrontmatter(Lines(c)), CleanHead(Lines(c)), NEW dir
  PROVE  Described(ParseSkillMD(c, dir), Lines(c))
<1> DEFINE ls == Lines(c)
           k == CloseFence(ls)
           mid == SubSeq(ls, 2, k - 1)
           v == SubSeq(ls, k + 1, Len(ls))
<1>1. /\ mid \in Seq(Line) /\ v \in Seq(Line)
      /\ \A i \in 1..Len(mid) : mid[i] = ls[i + 1] /\ i + 1 \in 2..(k - 1)
      /\ \E t, e \in Ending : c = Fenced(Joined(Frame(t, mid)), e \o After(v))
  BY FramedFile
<1>2. PICK t \in Ending, e \in Ending : c = Fenced(Joined(Frame(t, mid)), e \o After(v))
  BY <1>1
<1>3. k \in 2..Len(ls) /\ Len(ls) \in Nat /\ ls \in Seq(Text) /\ DOMAIN ls = 1..Len(ls) /\ CleanHead(ls)
  <2>1. ls \in Seq(Text) /\ HasFrontmatter(ls) /\ CleanHead(ls)
    BY LinesAppend
  <2> HIDE DEF ls
  <2> QED
    BY <2>1, ClosingFence, LenProperties
<1> DEFINE M == Joined(Frame(t, mid))
           R == e \o After(v)
           W == Tokens \ {"---"}
<1> HIDE DEF ls, k, mid, v
<1>4. mid \in Seq(Text) /\ v \in Seq(Text)
  BY <1>1, LineIsText, SeqMonotonic
<1>5. /\ t \in Line /\ t \in Text /\ t \in Seq(W) /\ TrimSpace(t) = <<>>
      /\ \A r \in Text : e \o r \in Text /\ TrimSpace(e \o r) = TrimSpace(r)
  BY EndingIs
<1>6. M \in Text /\ Frame(t, mid) \in Seq(Text) \ {<<>>}
  BY <1>4, <1>5, BeforeIs
<1>7. ASSUME NEW S, t \in S, <<>> \in S, mid \in Seq(S)
      PROVE  Frame(t, mid) \in Seq(S)
  <2> DEFINE r == Append(mid, <<>>)
  <2>1. r \in Seq(S) /\ <<t>> \in Seq(S)
    BY <1>7, AppendProperties, OneOf
  <2> HIDE DEF r
  <2> QED
    BY <2>1, ConcatProperties DEF Frame, r
<1>8. Lines(M) = Frame(t, mid)
  <2>1. Frame(t, mid) \in Seq(Line)
    BY <1>1, <1>5, <1>7, LineIsText
  <2> QED
    BY <1>6, <2>1, LinesJoined
<1>9. Delimiters(M) = {}
  <2>1. ASSUME NEW i \in 1..Len(mid) PROVE mid[i] \in Seq(W)
    <3>1. mid[i] = ls[i + 1] /\ i + 1 \in 2..(k - 1)
      BY <1>1
    <3>2. i + 1 \in 1..Len(ls) /\ ~(i + 1 >= k) /\ i + 1 # 1
      BY ONLY <1>3, <3>1
    <3>3. Delimiters(ls[i + 1]) = {} /\ ls[i + 1] \in Text
      <4>1. i + 1 \in DOMAIN ls
        BY <1>3, <3>2
      <4> QED
        BY <1>3, <3>2, <4>1, ElementOfSeq DEF CleanHead, k
    <3> QED
      BY <3>1, <3>3, CleanText
  <2> HIDE DEF W
  <2>2. mid \in Seq(Seq(W))
    <3> DEFINE m == Len(mid)
    <3>1. m \in Nat /\ SubSeq(mid, 1, m) = mid
      BY <1>1, LenProperties, SubSeqFull
    <3>2. \A i \in 1..m : mid[i] \in Seq(W)
      BY <2>1
    <3> HIDE DEF m
    <3>3. SubSeq(mid, 1, m) \in Seq(Seq(W))
      BY <3>1, <3>2, SubSeqProperties
    <3> QED
      BY <3>1, <3>3
  <2>3. Frame(t, mid) \in Seq(Seq(W))
    BY <1>5, <1>7, <2>2, EmptySeq
  <2>4. W \in SUBSET Tokens /\ "nl" \in W
    BY Keywords DEF W
  <2>5. M \in Seq(W)
    BY <1>6, <2>3, <2>4, JoinedWithin
  <2> QED
    BY <1>6, <2>5, CleanText DEF W
<1>10. After(v) \in Text /\ R \in Text /\ TrimSpace(R) = IF v = <<>> THEN <<>> ELSE TrimSpace(Joined(v))
  <2>1. CASE v = <<>>
    <3>1. After(v) = <<>> /\ <<>> \in Text
      BY <2>1, TextConcat DEF After
    <3>2. AllBlank(<<>>)
      BY DEF AllBlank
    <3>3. TrimSpace(<<>>) = <<>>
      BY <3>2, TrimAll
    <3> QED
      BY <1>5, <2>1, <3>1, <3>3
  <2>2. CASE v # <<>>
    <3>1. After(v) = <<"nl">> \o Joined(v) /\ Joined(v) \in Text
      BY <1>4, <2>2, JoinedType DEF After
    <3>2. After(v) \in Text
      BY <3>1, TextConcat
    <3>3. TrimSpace(After(v)) = TrimSpace(Joined(v))
      BY <3>1, Keywords, TrimFront
    <3> QED
      BY <1>5, <2>2, <3>2, <3>3
  <2> QED
    BY <2>1, <2>2
<1>11. c = Fenced(M, R)
  BY <1>2
<1>12. Opens(Fenced(M, R))
  BY <1>4, <1>10, FencedOpens
<1> HIDE DEF M, R
<1>13. ParseSkillMD(c, dir) =
         Skill(Metadata(Lines(M), "name:", Unnamed),
               Metadata(Lines(M), "description:", Undescribed), TrimSpace(R), dir)
  BY <1>6, <1>9, <1>10, <1>11, <1>12, ParsedBetween
<1>14. ASSUME NEW key, NEW default
       PROVE  Metadata(Lines(M), key, default) = Metadata(mid, key, default)
  <2>1. Metadata(<<t>> \o Append(mid, <<>>), key, default) = Metadata(mid, key, default)
    BY <1>4, <1>5, FramedMetadata
  <2> QED
    BY <1>8, <2>1 DEF Frame
<1>15. ParseSkillMD(c, dir) =
         Skill(Metadata(mid, "name:", Unnamed), Metadata(mid, "description:", Undescribed),
               IF v = <<>> THEN <<>> ELSE TrimSpace(Joined(v)), dir)
  BY <1>10, <1>13, <1>14
<1>16. \A n, w, b : LET s == Skill(n, w, b, dir)
                    IN s.name = n /\ s.description = w /\ s.body = WithDir(b, dir) /\ s.dir = dir
  BY DEF Skill
<1> DEFINE p == ParseSkillMD(c, dir)
           b == IF v = <<>> THEN <<>> ELSE TrimSpace(Joined(v))
<1>17. /\ p.name = Metadata(mid, "name:", Unnamed) /\ p.dir = dir
       /\ p.description = Metadata(mid, "description:", Undescribed)
       /\ p.body = WithDir(b, dir)
  BY <1>15, <1>16
<1> HIDE DEF p
<1>18. Described(p, ls)
  BY <1>17 DEF Described, mid, v, k
<1> QED
  BY <1>18 DEF p, ls

-----------------------------------------------------------------------------
(* Where it finds none, the loader finds none either.                      *)
LEMMA OneDelimiter ==
  ASSUME NEW y \in Text, Delimiters(y) = {}
  PROVE  Cardinality(Delimiters(Dashes \o y)) = 1
<1> DEFINE d == Dashes
           c == d \o y
           n == Len(y)
<1>1. d \in Text /\ Len(d) = 1
  BY Keywords DEF Text, Tokens, Dashes
<1> HIDE DEF d
<1>2. /\ c \in Text /\ n \in Nat /\ Len(c) = Len(d) + n
      /\ \A k \in 1..(Len(d) + n) : c[k] = IF k <= Len(d) THEN d[k] ELSE y[k - Len(d)]
  BY <1>1, Concatenated
<1>3. DOMAIN c = 1..(n + 1)
  <2>1. DOMAIN c = 1..Len(c)
    BY <1>2, OfText
  <2> HIDE DEF c
  <2> QED
    BY <1>1, <1>2, <2>1
<1>4. \A k \in 1..n : y[k] # "---"
  BY OfText DEF Delimiters
<1> HIDE DEF c, n
<1>5. ASSUME NEW k \in 1..(n + 1), k # 1 PROVE c[k] # "---"
  <2>1. k \in 1..(Len(d) + n) /\ ~(k <= Len(d)) /\ k - Len(d) \in 1..n
    BY ONLY <1>1, <1>2, <1>5
  <2> QED
    BY <1>2, <1>4, <2>1
<1>6. Delimiters(c) \subseteq {1}
  BY <1>3, <1>5 DEF Delimiters
<1>7. 1 \in Delimiters(c)
  <2>1. 1 \in 1..(Len(d) + n) /\ 1 <= Len(d) /\ 1 \in 1..(n + 1)
    BY ONLY <1>1, <1>2
  <2>2. c[1] = d[1]
    BY <1>2, <2>1
  <2>3. d[1] = "---"
    BY DEF d, Dashes
  <2> QED
    BY <1>3, <2>1, <2>2, <2>3 DEF Delimiters
<1>8. Delimiters(c) = {1}
  BY <1>6, <1>7
<1> QED
  BY <1>8, FS_Singleton DEF c, d

LEMMA PlainFile ==
  ASSUME NEW c \in Text, ~HasFrontmatter(Lines(c)), CleanHead(Lines(c)), NEW dir
  PROVE  ParseSkillMD(c, dir) = Skill(Unnamed, Undescribed, c, dir)
<1> SUFFICES ASSUME Opens(c) PROVE ~(Cardinality(Delimiters(c)) > 1)
  BY DEF ParseSkillMD
<1> DEFINE d == Dashes
           nl == <<"nl">>
           W == Tokens \ {"---"}
<1>1. PICK t \in Ending, r \in Text : c = ((d \o t) \o nl) \o r
  BY OpensWith
<1> DEFINE rs == Lines(r)
           f == <<d \o t>> \o rs
<1>2. /\ d \in Text /\ nl \in Text /\ t \in Text /\ t \in Seq(W)
      /\ d \o t \in Line /\ d \o t \in Text
  BY EndingIs, FenceIs, LineIsText, TextConcat
<1>3. rs \in Seq(Line) /\ rs \in Seq(Text) /\ rs # <<>> /\ Joined(rs) = r
  BY LinesAreLines, LinesAppend, JoinedLines
<1>4. Lines(c) = f
  <2>1. <<d \o t>> \in Seq(Line) /\ <<d \o t>> \in Seq(Text) /\ <<d \o t>> # <<>> /\ Joined(<<d \o t>>) = d \o t
    BY <1>2, OneOf, JoinOne
  <2> HIDE DEF rs, d, nl
  <2>2. Joined(f) = ((d \o t) \o nl) \o r
    BY <1>3, <2>1, JoinConcat DEF JoinStep, nl
  <2>3. f \in Seq(Line) /\ f # <<>>
    BY <1>3, <2>1, ConcatProperties, ConcatEqualIffEmpty
  <2> HIDE DEF f
  <2> QED
    BY <1>1, <2>2, <2>3, LinesJoined
<1>5. ASSUME NEW i \in 1..Len(rs) PROVE rs[i] \in Seq(W)
  <2> HIDE DEF rs, d, nl, W
  <2>1. <<d \o t>> \in Seq(Text) /\ Len(<<d \o t>>) = 1 /\ Len(rs) \in Nat
    BY <1>2, <1>3, OneOf, LenProperties
  <2>2. /\ f \in Seq(Text) /\ Len(f) = Len(<<d \o t>>) + Len(rs)
        /\ \A j \in 1..(Len(<<d \o t>>) + Len(rs)) :
             f[j] = IF j <= Len(<<d \o t>>) THEN <<d \o t>>[j] ELSE rs[j - Len(<<d \o t>>)]
    BY <1>3, <2>1, ConcatProperties
  <2> HIDE DEF f
  <2>3. DOMAIN f = 1..Len(f)
    BY <2>2, LenProperties
  <2> DEFINE o == Len(<<d \o t>>)
  <2>4. o = 1 /\ Len(f) = o + Len(rs)
    BY <2>1, <2>2
  <2>5. f[i + 1] = rs[i] /\ i + 1 \in DOMAIN f /\ i + 1 # 1
    <3>1. \A j \in 1..(o + Len(rs)) : ~(j <= o) => f[j] = rs[j - o]
      BY <2>2
    <3> HIDE DEF o
    <3>2. /\ i + 1 \in 1..(o + Len(rs)) /\ ~(i + 1 <= o) /\ (i + 1) - o = i /\ i + 1 # 1
          /\ i + 1 \in 1..Len(f)
      BY ONLY <2>1, <2>4, i \in 1..Len(rs)
    <3>3. f[i + 1] = rs[(i + 1) - o]
      BY <3>1, <3>2
    <3> QED
      BY <2>3, <3>2, <3>3
  <2>6. Delimiters(f[i + 1]) = {}
    BY <1>4, <2>5 DEF CleanHead
  <2>7. rs[i] \in Text
    BY <1>3, ElementOfSeq
  <2> QED
    BY <2>5, <2>6, <2>7, CleanText DEF W
<1>6. rs \in Seq(Seq(W))
  <2> HIDE DEF rs, W
  <2> DEFINE m == Len(rs)
  <2>1. m \in Nat /\ SubSeq(rs, 1, m) = rs
    BY <1>3, LenProperties, SubSeqFull
  <2>2. \A i \in 1..m : rs[i] \in Seq(W)
    BY <1>5
  <2> HIDE DEF m
  <2>3. SubSeq(rs, 1, m) \in Seq(Seq(W))
    BY <2>1, <2>2, SubSeqProperties
  <2> QED
    BY <2>1, <2>3
<1>7. r \in Seq(W)
  <2>1. W \in SUBSET Tokens /\ "nl" \in W
    BY Keywords
  <2> HIDE DEF rs, W
  <2> QED
    BY <1>3, <1>6, <2>1, JoinedWithin
<1> DEFINE tn == t \o nl
           y == tn \o r
<1>8. y \in Text /\ y \in Seq(W)
  <2>1. nl \in Seq(W)
    <3>1. "nl" \in W
      BY Keywords
    <3> HIDE DEF W
    <3> QED
      BY <3>1, OneOf
  <2> HIDE DEF nl, W
  <2>2. tn \in Text /\ tn \in Seq(W)
    BY <1>2, <2>1, TextConcat, ConcatProperties
  <2> HIDE DEF tn
  <2> QED
    BY <1>7, <2>2, TextConcat, ConcatProperties
<1>9. Delimiters(y) = {}
  <2> HIDE DEF y
  <2> QED
    BY <1>8, CleanText
<1>10. c = d \o y
  <2> HIDE DEF d, nl
  <2>1. (d \o t) \o nl = d \o tn /\ tn \in Text
    BY ONLY <1>2, TextConcat
  <2> HIDE DEF tn
  <2>2. r \in Text
    OBVIOUS
  <2>3. (d \o tn) \o r = d \o (tn \o r)
    BY ONLY <1>2, <2>1, <2>2, TextConcat
  <2> QED
    BY <1>1, <2>1, <2>3
<1> HIDE DEF y
<1>11. Cardinality(Delimiters(c)) = 1
  BY <1>8, <1>9, <1>10, OneDelimiter
<1> QED
  BY <1>11

(* Whatever the file, nothing is cut off the end of the instructions.      *)
LEMMA NothingCutOff ==
  ASSUME NEW c \in Text, NEW dir, dir \notin Blank
  PROVE  IsSuffix(TrimSpace(ParseSkillMD(c, dir).body), WithDir(TrimSpace(c), dir))
<1> DEFINE p == ParseSkillMD(c, dir)
           b == TrimSpace(c)
<1>1. b \in Text /\ TrimSpace(c) \in Text
  BY TrimType
<1>2. \A n, w, x : Skill(n, w, x, dir).body = WithDir(x, dir)
  BY DEF Skill
<1>3. CASE Opens(c) /\ Cardinality(Delimiters(c)) > 1
  <2> DEFINE D == Delimiters(c)
             k == Min(D \ {1})
             r == SubSeq(c, k + 1, Len(c))
             m == TrimSpace(r)
  <2>1. p.body = WithDir(m, dir)
    BY <1>2, <1>3 DEF ParseSkillMD
  <2>2. k \in 0..Len(c)
    <3>1. D \in SUBSET (1..Len(c)) /\ Len(c) \in Nat /\ Cardinality(D) > 1
      BY <1>3, OfText DEF Delimiters
    <3> HIDE DEF D
    <3>2. D \ {1} # {}
      <4>1. SUFFICES ASSUME D \subseteq {1} PROVE FALSE
        OBVIOUS
      <4>2. D = {} \/ D = {1}
        BY <4>1
      <4>3. Cardinality({}) = 0 /\ Cardinality({1}) = 1
        BY FS_EmptySet, FS_Singleton
      <4> QED
        <5>1. Cardinality(D) = 0 \/ Cardinality(D) = 1
          BY <4>2, <4>3, Zenon
        <5> QED
          BY ONLY <3>1, <5>1
    <3>3. D \ {1} \in SUBSET Nat
      BY <3>1
    <3>4. k \in D \ {1}
      BY <3>2, <3>3, MinIsMember
    <3>5. k \in 1..Len(c)
      BY <3>1, <3>4
    <3> HIDE DEF k
    <3> QED
      BY ONLY <3>1, <3>5
  <2> HIDE DEF k
  <2>3. r \in Text /\ EndOf(m, b)
    BY <2>2, TrimEnds
  <2> HIDE DEF r
  <2>4. m \in Text /\ TrimSpace(m) = m
    BY <2>3, TrimType, TrimTwice
  <2> HIDE DEF m, b, p
  <2>5. TrimSpace(p.body) = WithDir(m, dir)
    BY <2>1, <2>4, TrimWithDir
  <2>6. IsSuffix(WithDir(m, dir), WithDir(b, dir))
    BY <1>1, <2>3, <2>4, WithDirEnds
  <2> QED
    BY <2>5, <2>6 DEF p, b
<1>4. CASE ~(Opens(c) /\ Cardinality(Delimiters(c)) > 1)
  <2>1. p.body = WithDir(c, dir)
    BY <1>2, <1>4 DEF ParseSkillMD
  <2> HIDE DEF p
  <2>2. TrimSpace(p.body) = WithDir(b, dir)
    BY <2>1, TrimWithDir
  <2> HIDE DEF b
  <2>3. EndOf(b, b)
    <3>1. Len(b) \in Nat
      BY <1>1, LenProperties DEF Text
    <3>2. Len(b) \in 0..Len(b) /\ \A i \in 1..Len(b) : Len(b) - Len(b) + i = i
      BY <3>1
    <3> QED
      BY <3>2 DEF EndOf
  <2>4. IsSuffix(WithDir(b, dir), WithDir(b, dir))
    BY <1>1, <2>3, WithDirEnds
  <2> QED
    BY <2>2, <2>4 DEF p, b
<1> QED
  BY <1>3, <1>4

-----------------------------------------------------------------------------
(* The prompt has of each SKILL.md what the rule by lines says of it.      *)
LEMMA SkillsAreParsed ==
  ASSUME NEW found, NEW S, found.tree \in Seq(S),
         NEW p \in ToSet(Build(found)), p.part = "skill"
  PROVE  p \in Parsed(S)
<1> DEFINE skills == Walked(Reached(found.tree))
           head == PromptHead(found, skills # <<>>)
           built == Build(found)
           o == Len(head)
           n == Len(skills)
<1>1. skills \in Seq(Parsed(S))
  BY ReachedIs, WalkTells
<1>2. PICK H : head \in Seq(H) /\ \A e \in H : e.part # "skill"
  BY BuildIs
<1>3. built = head \o skills
  BY BuildIs
<1>4. \E k \in DOMAIN built : p = built[k]
  BY DEF ToSet
<1> HIDE DEF skills, head, built
<1> DEFINE U == H \cup Parsed(S)
<1>5. head \in Seq(U) /\ skills \in Seq(U)
  <2>1. H \subseteq U /\ Parsed(S) \subseteq U
    OBVIOUS
  <2> HIDE DEF U
  <2> QED
    BY <1>1, <1>2, <2>1, SeqMonotonic
<1> HIDE DEF U
<1>6. /\ built \in Seq(U) /\ Len(built) = o + n /\ o \in Nat /\ n \in Nat
      /\ \A k \in 1..(o + n) : built[k] = IF k <= o THEN head[k] ELSE skills[k - o]
  BY <1>3, <1>5, ConcatProperties, LenProperties
<1>7. PICK k \in 1..(o + n) : p = built[k]
  BY <1>4, <1>6, LenProperties
<1>8. CASE k <= o
  <2>1. k \in 1..o
    BY <1>6, <1>8
  <2>2. p \in H
    BY <1>2, <1>6, <1>7, <1>8, <2>1, ElementOfSeq
  <2> QED
    BY <1>2, <2>2
<1>9. CASE ~(k <= o)
  <2>1. k - o \in 1..n
    BY <1>6, <1>9
  <2>2. p = skills[k - o]
    BY <1>6, <1>7, <1>9
  <2> QED
    BY <1>1, <2>1, <2>2, ElementOfSeq
<1> QED
  BY <1>8, <1>9

LEMMA PromptFaithful ==
  ASSUME NEW found, NEW S, found.tree \in Seq(S),
         \A f \in S : f.kind = "skill" => f.content \in Text /\ f.dir \notin Blank,
         \A f, g \in S : f.kind = "skill" /\ g.kind = "skill" /\ f.dir = g.dir => f = g
  PROVE  FrontmatterFaithful(found, Build(found))
<1> SUFFICES ASSUME NEW p \in ToSet(Build(found)), NEW f \in ToSet(found.tree),
                    p.part = "skill", f.kind = "skill", p.dir = f.dir
             PROVE  LET lines == Lines(f.content)
                    IN  /\ CleanHead(lines) /\ HasFrontmatter(lines) => Described(p, lines)
                        /\ CleanHead(lines) /\ ~HasFrontmatter(lines) =>
                             p = Skill(Unnamed, Undescribed, f.content, f.dir)
                        /\ IsSuffix(TrimSpace(p.body), WithDir(TrimSpace(f.content), f.dir))
  BY DEF FrontmatterFaithful
<1>1. p \in Parsed(S)
  BY SkillsAreParsed
<1>2. f \in S
  <2>1. \E k \in DOMAIN found.tree : f = found.tree[k]
    BY DEF ToSet
  <2> QED
    BY <2>1, LenProperties, ElementOfSeq
<1>3. PICK g \in S : g.kind = "skill" /\ p = ParseSkillMD(g.content, g.dir)
  BY <1>1 DEF Parsed
<1>4. g = f
  <2>1. p.dir = g.dir
    BY <1>3, ParsedFields
  <2> QED
    BY <1>2, <1>3, <2>1
<1>5. p = ParseSkillMD(f.content, f.dir) /\ f.content \in Text /\ f.dir \notin Blank
  BY <1>2, <1>3, <1>4
<1> QED
  BY <1>5, DescribedByLines, PlainFile, NothingCutOff

(* For any tree of SKILL.md files, whatever their lines, the prompt has of *)
(* each what the rule by lines says, wherever the delimiters of the head   *)
(* have lines of their own; and it cuts nothing off the end of any.        *)
THEOREM FrontmatterHolds == StartupSpec => []FrontmatterExact
<1>1. StartupInit => FrontmatterExact
  BY DEF StartupInit, FrontmatterExact
<1>2. FrontmatterExact /\ [StartupNext]_startupVars => FrontmatterExact'
  <2> SUFFICES ASSUME FrontmatterExact, [StartupNext]_startupVars PROVE FrontmatterExact'
    OBVIOUS
  <2>1. ASSUME NEW d \in Disks, StartRun(d) PROVE FrontmatterExact'
    <3>1. /\ d.tree \in Seq(ToSet(d.tree))
          /\ \A f \in ToSet(d.tree) : f.kind = "skill" => f.content \in Text /\ f.dir \notin Blank
          /\ \A f, g \in ToSet(d.tree) :
               f.kind = "skill" /\ g.kind = "skill" /\ f.dir = g.dir => f = g
      BY DisksAssumption
    <3>2. FrontmatterFaithful(d, Build(d))
      BY <3>1, PromptFaithful
    <3>3. disk' = d /\ prompt' = Build(d)
      BY <2>1 DEF StartRun
    <3> QED
      BY <3>2, <3>3 DEF FrontmatterExact
  <2>2. CASE UNCHANGED <<disk, prompt>>
    BY <2>2 DEF FrontmatterExact
  <2> QED
    BY <2>1, <2>2 DEF StartupNext, startupVars
<1> QED
  BY <1>1, <1>2, PTL DEF StartupSpec

=============================================================================
