--------------------------- MODULE AgentLoopProofs ---------------------------
(***************************************************************************)
(* Proofs about AgentLoop, for any runs, sub-agents, chats, limits and     *)
(* numbers of tool calls.                                                  *)
(***************************************************************************)
EXTENDS AgentLoop, FiniteSetTheorems, FoldProofs

Homes == Sessions \cup Subs

States == {"running", "delegated", "ok", "error"}

Places == {"idle", "loop", "think", "act", "tools", "remind", "done", "failed"}

-----------------------------------------------------------------------------
(* Whose history is whose.                                                 *)
LEMMA HomeType ==
  /\ \A a \in All : Home(a) \in Homes
  /\ \A r \in Runs : r \in All /\ Home(r) = Chat[r] /\ Chat[r] \in Sessions /\ r \notin Subs
  /\ \A s \in Subs : s \in All /\ Home(s) = s /\ s \notin Runs /\ s \notin Sessions
  BY LoopAssumption DEF Home, Homes, All

LEMMA MessageType ==
  ASSUME TypeOK, NEW a \in All, NEW kind \in Kinds, NEW k \in Nat
  PROVE  Msg(a, kind, k) \in Message
  BY DEF TypeOK, Msg, Message

LEMMA ObservationsType ==
  ASSUME TypeOK, NEW a \in All
  PROVE  /\ Observations(a) \in Seq(Message)
         /\ Len(Observations(a)) = Len(slots[a])
         /\ \A i \in 1..Len(slots[a]) : Observations(a)[i] = Msg(a, "obs", i)
<1>1. slots[a] \in Seq(States) /\ Len(slots[a]) \in Nat /\ DOMAIN slots[a] = 1..Len(slots[a])
  BY DEF TypeOK, States
<1>2. \A i \in 1..Len(slots[a]) : Msg(a, "obs", i) \in Message
  BY <1>1, MessageType DEF Kinds
<1>3. Observations(a) \in [1..Len(slots[a]) -> Message]
  BY <1>1, <1>2 DEF Observations
<1> QED
  BY <1>1, <1>3 DEF Observations

(* The tail of a history, and the tail of that from a message on that is   *)
(* no observation.                                                         *)
LEMMA WorkingMemoryShape ==
  ASSUME NEW h \in Seq(Message)
  PROVE  \/ Len(h) <= Limit /\ WorkingMemory(h) = h
         \/ /\ Len(h) > Limit
            /\ \/ /\ WorkingMemory(h) = <<>>
                  /\ \A i \in (Len(h) - Limit + 1)..Len(h) : h[i].kind = "obs"
               \/ \E q \in (Len(h) - Limit + 1)..Len(h) :
                    /\ WorkingMemory(h) = SubSeq(h, q, Len(h))
                    /\ h[q].kind # "obs"
<1>1. CASE Len(h) <= Limit
  BY <1>1 DEF WorkingMemory
<1>2. CASE Len(h) > Limit
  <2> DEFINE m == Len(h) - Limit + 1
             t == SubSeq(h, m, Len(h))
             kept == {i \in 1..Len(t) : \E j \in 1..i : t[j].kind # "obs"}
             first == CHOOSE i \in kept : \A j \in kept : i <= j
  <2>1. Len(h) \in Nat /\ m \in 1..Len(h) /\ WorkingMemory(h) = DropOrphans(t)
    BY <1>2, LoopAssumption DEF WorkingMemory
  <2>2. t \in Seq(Message) /\ Len(t) = Limit /\ \A i \in 1..Limit : t[i] = h[m + i - 1]
    BY <2>1, LoopAssumption
  <2>3. WorkingMemory(h) = IF kept = {} THEN <<>> ELSE SubSeq(t, first, Len(t))
    BY <2>1 DEF DropOrphans
  <2> HIDE DEF t, m, first
  <2>4. CASE kept = {}
    <3>1. ASSUME NEW i \in 1..Limit PROVE t[i].kind = "obs"
      <4>1. i \in 1..Len(t)
        BY <2>2
      <4>2. i \notin kept
        BY <2>4
      <4> QED
        BY <4>1, <4>2, LoopAssumption
    <3>2. ASSUME NEW i \in m..Len(h) PROVE h[i].kind = "obs"
      <4>1. i - m + 1 \in 1..Limit /\ m + (i - m + 1) - 1 = i
        BY <2>1, LoopAssumption DEF m
      <4> QED
        BY <2>2, <3>1, <4>1
    <3> QED
      BY <1>2, <2>3, <2>4, <3>2 DEF m
  <2>5. CASE kept # {}
    <3>1. kept \in SUBSET Nat
      OBVIOUS
    <3>2. first \in kept /\ \A j \in kept : first <= j
      <4> HIDE DEF kept
      <4>1. \E i \in kept : \A j \in kept : i <= j
        BY <2>5, <3>1, LeastNatural
      <4> QED
        BY <4>1 DEF first
    <3>3. first \in 1..Limit /\ t[first].kind # "obs"
      <4>1. first \in 1..Limit
        BY <2>2, <3>2
      <4>2. PICK j \in 1..first : t[j].kind # "obs"
        BY <3>2
      <4>3. j \in kept
        BY <2>2, <4>1, <4>2, LoopAssumption
      <4>4. j = first
        BY <3>2, <4>1, <4>2, <4>3, LoopAssumption
      <4> QED
        BY <4>1, <4>2, <4>4
    <3> DEFINE q == m + first - 1
    <3>4. q \in m..Len(h) /\ h[q].kind # "obs"
      BY <2>1, <2>2, <3>3, LoopAssumption DEF m
    <3>5. SubSeq(t, first, Len(t)) = SubSeq(h, q, Len(h))
      <4>1. m + Limit - 1 = Len(h)
        BY <2>1, LoopAssumption DEF m
      <4>2. Len(h) - m + 1 = Limit
        BY <2>1, LoopAssumption DEF m
      <4>3. SubSeq(SubSeq(h, m, Len(h)), first, Limit) = SubSeq(h, m + first - 1, m + Limit - 1)
        BY <2>1, <3>3, <4>2, SubSeqOfSubSeq, LoopAssumption
      <4> QED
        BY <2>2, <4>1, <4>3 DEF t
    <3> QED
      BY <1>2, <2>3, <2>5, <3>4, <3>5 DEF m
  <2> QED
    BY <2>4, <2>5
<1> QED
  BY <1>1, <1>2, LoopAssumption

-----------------------------------------------------------------------------
(* What a step may do to the histories and to the contexts.                *)
Speaks(a, kind, k) == history' = [history EXCEPT ![Home(a)] = Append(@, Msg(a, kind, k))]

Says(a) == \E kind \in Kinds \ {"obs"}, k \in 0..MaxCalls : Speaks(a, kind, k)

Reads(a) ==
  /\ pc[a] = "tools"
  /\ history' = [history EXCEPT ![Home(a)] = @ \o Observations(a)]

(* The run or sub-agent whose step it is.                                  *)
Acts(a) == (a \in Runs /\ RunStep(a)) \/ (a \in Subs /\ SubStep(a))

LEMMA StepOf == ASSUME NEW a \in All, Acts(a) PROVE Next
  BY DEF Next, Acts

LEMMA Actors == Next => \E a \in All : Acts(a)
  BY DEF Next, Acts, All

LEMMA HistoryStep ==
  ASSUME NEW a \in All, Acts(a)
  PROVE  UNCHANGED history \/ Says(a) \/ Reads(a)
<1>0. 0 \in 0..MaxCalls /\ 1..MaxCalls \subseteq 0..MaxCalls
  BY LoopAssumption
<1>1. ASSUME NEW kind \in {"user", "think", "answer", "reminder"},
             Append1(a, Msg(a, kind, 0))
      PROVE  Says(a)
  BY <1>0, <1>1 DEF Says, Speaks, Kinds, Append1
<1>2. ASSUME NEW n \in 1..MaxCalls, Append1(a, Msg(a, "call", n)) PROVE Says(a)
  BY <1>0, <1>2 DEF Says, Speaks, Kinds, Append1
<1>3. CASE a \in Runs /\ RunStep(a)
  <2>1. CASE UserMessage(a) \/ Think(a) \/ Answer(a) \/ Remind(a)
    BY <1>1, <2>1, HomeType DEF UserMessage, Think, Answer, Remind
  <2>2. CASE \E n \in 1..MaxCalls : CallTools(a, n)
    BY <1>2, <2>2, HomeType DEF CallTools
  <2>3. CASE Observe(a)
    BY <1>3, <2>3, HomeType DEF Observe, Reads
  <2>4. CASE BeginTurn(a) \/ GenerateFails(a) \/ ToolStep(a)
    BY <2>4 DEF BeginTurn, GenerateFails, ToolStep, ToolReturns
  <2> QED
    BY <1>3, <2>1, <2>2, <2>3, <2>4 DEF RunStep
<1>4. CASE a \in Subs /\ SubStep(a)
  <2>1. CASE SubAnswer(a) \/ \E r \in Runs : \E i \in DOMAIN slots[r] : Delegate(a, r, i)
    BY <1>1, <2>1, HomeType DEF SubAnswer, Delegate
  <2>2. CASE \E n \in 1..MaxCalls : SubCallTools(a, n)
    BY <1>2, <2>2, HomeType DEF SubCallTools
  <2>3. CASE SubObserve(a)
    BY <1>4, <2>3, HomeType DEF SubObserve, Reads
  <2>4. CASE BeginSubTurn(a) \/ SubGenerateFails(a) \/ SubToolStep(a) \/ Report(a)
    BY <2>4 DEF BeginSubTurn, SubGenerateFails, SubToolStep, ToolStep, ToolReturns, Report
  <2> QED
    BY <1>4, <2>1, <2>2, <2>3, <2>4 DEF SubStep
<1> QED
  BY <1>3, <1>4 DEF Acts

LEMMA ContextStep ==
  ASSUME Next
  PROVE  \/ UNCHANGED context
         \/ \E r \in Runs :
              \/ context' = [context EXCEPT ![r] = WorkingMemory(history[Chat[r]])]
              \/ context' = [context EXCEPT ![r] = Append(@, Msg(r, "think", 0))]
         \/ \E s \in Subs : context' = [context EXCEPT ![s] = history[s]]
<1>1. ASSUME NEW r \in Runs, RunStep(r)
      PROVE  \/ UNCHANGED context
             \/ context' = [context EXCEPT ![r] = WorkingMemory(history[Chat[r]])]
             \/ context' = [context EXCEPT ![r] = Append(@, Msg(r, "think", 0))]
  BY <1>1 DEF RunStep, UserMessage, BeginTurn, Think, GenerateFails, Answer, CallTools,
              ToolStep, ToolReturns, Observe, Remind
<1>2. ASSUME NEW s \in Subs, SubStep(s)
      PROVE  UNCHANGED context \/ context' = [context EXCEPT ![s] = history[s]]
  BY <1>2 DEF SubStep, Delegate, BeginSubTurn, SubGenerateFails, SubAnswer, SubCallTools,
              SubToolStep, ToolStep, ToolReturns, SubObserve, Report
<1> QED
  BY <1>1, <1>2 DEF Next

LEMMA Spoken ==
  ASSUME TypeOK, NEW a \in All, NEW kind \in Kinds, NEW k \in Nat, Speaks(a, kind, k)
  PROVE  /\ history' \in [Homes -> Seq(Message)]
         /\ history'[Home(a)] = Append(history[Home(a)], Msg(a, kind, k))
         /\ \A h \in Homes : h # Home(a) => history'[h] = history[h]
<1>1. history \in [Homes -> Seq(Message)] /\ Home(a) \in Homes
  BY HomeType DEF TypeOK, Homes
<1>2. Append(history[Home(a)], Msg(a, kind, k)) \in Seq(Message)
  BY <1>1, MessageType, AppendProperties
<1> QED
  BY <1>1, <1>2 DEF Speaks

LEMMA ReadIn ==
  ASSUME TypeOK, NEW a \in All, Reads(a)
  PROVE  /\ history' \in [Homes -> Seq(Message)]
         /\ history'[Home(a)] = history[Home(a)] \o Observations(a)
         /\ \A h \in Homes : h # Home(a) => history'[h] = history[h]
<1>1. history \in [Homes -> Seq(Message)] /\ Home(a) \in Homes
  BY HomeType DEF TypeOK, Homes
<1>2. history[Home(a)] \o Observations(a) \in Seq(Message)
  BY <1>1, ObservationsType, ConcatProperties
<1> QED
  BY <1>1, <1>2 DEF Reads

-----------------------------------------------------------------------------
(* The delegations of calls to sub-agents: who is at work does so for one  *)
(* call, which waits, and for each call that waits there is one.           *)
BossInv ==
  /\ \A s \in Subs :
       boss[s] # NoCall =>
         \E r \in Runs : \E i \in 1..Len(slots[r]) :
           boss[s] = <<r, i>> /\ pc[r] = "tools" /\ slots[r][i] = "delegated"
  /\ \A s \in Subs : Active(s) => boss[s] # NoCall
  /\ \A s \in Subs : pc[s] = "idle" => boss[s] = NoCall
  /\ \A s, t \in Subs : boss[s] = boss[t] /\ boss[s] # NoCall => s = t
  /\ \A r \in Runs : \A i \in 1..Len(slots[r]) :
       slots[r][i] = "delegated" => \E s \in Subs : boss[s] = <<r, i>>

SetsSlot(a, i, res) == slots' = [slots EXCEPT ![a][i] = res]

LEMMA SlotSet ==
  ASSUME TypeOK, NEW a \in All, NEW i \in 1..Len(slots[a]), NEW res \in States,
         SetsSlot(a, i, res)
  PROVE  /\ slots' \in [All -> Seq(States)]
         /\ \A b \in All : Len(slots'[b]) = Len(slots[b])
         /\ \A b \in All : \A j \in 1..Len(slots[b]) :
              slots'[b][j] = IF b = a /\ j = i THEN res ELSE slots[b][j]
<1> DEFINE changed == [slots[a] EXCEPT ![i] = res]
<1>1. slots \in [All -> Seq(States)]
  BY DEF TypeOK, States
<1>2. /\ changed \in Seq(States) /\ Len(changed) = Len(slots[a])
      /\ \A j \in 1..Len(slots[a]) : changed[j] = IF j = i THEN res ELSE slots[a][j]
  BY <1>1, ExceptSeq
<1>3. slots' = [slots EXCEPT ![a] = changed]
  BY DEF SetsSlot
<1> QED
  BY <1>1, <1>2, <1>3

LEMMA SlotsNew ==
  ASSUME TypeOK, NEW a \in All, NEW n \in 1..MaxCalls,
         slots' = [slots EXCEPT ![a] = [i \in 1..n |-> "running"]]
  PROVE  /\ slots' \in [All -> Seq(States)]
         /\ Len(slots'[a]) = n
         /\ \A i \in 1..n : slots'[a][i] = "running"
         /\ \A b \in All : b # a => slots'[b] = slots[b]
<1> DEFINE fresh == [i \in 1..n |-> "running"]
<1>1. slots \in [All -> Seq(States)]
  BY DEF TypeOK, States
<1>2. fresh \in Seq(States) /\ Len(fresh) = n /\ \A i \in 1..n : fresh[i] = "running"
  BY LoopAssumption DEF States
<1> QED
  BY <1>1, <1>2

(* A step in which all calls that are delegated stay so.                   *)
LEMMA BossQuiet ==
  ASSUME TypeOK, BossInv, slots' \in [All -> Seq(States)], UNCHANGED boss,
         \A r \in Runs : pc[r] = "tools" => pc'[r] = "tools",
         \A r \in Runs :
           \/ slots'[r] = slots[r]
           \/ /\ Len(slots'[r]) = Len(slots[r])
              /\ \A i \in 1..Len(slots[r]) :
                   slots'[r][i] = "delegated" <=> slots[r][i] = "delegated",
         \A s \in Subs : pc'[s] = pc[s] \/ (pc'[s] # "idle" /\ Active(s))
  PROVE  BossInv'
<1>1. \A s \in Subs : boss'[s] # NoCall =>
        \E r \in Runs : \E i \in 1..Len(slots'[r]) :
          boss'[s] = <<r, i>> /\ pc'[r] = "tools" /\ slots'[r][i] = "delegated"
  BY DEF BossInv
<1>2. \A s \in Subs : Active(s)' => boss'[s] # NoCall
  BY DEF BossInv, Active
<1>3. \A s \in Subs : pc'[s] = "idle" => boss'[s] = NoCall
  BY DEF BossInv
<1>4. \A s, t \in Subs : boss'[s] = boss'[t] /\ boss'[s] # NoCall => s = t
  BY DEF BossInv
<1>5. \A r \in Runs : \A i \in 1..Len(slots'[r]) :
        slots'[r][i] = "delegated" => \E s \in Subs : boss'[s] = <<r, i>>
  <2> SUFFICES ASSUME NEW r \in Runs, NEW i \in 1..Len(slots'[r]), slots'[r][i] = "delegated"
               PROVE  \E s \in Subs : boss'[s] = <<r, i>>
    OBVIOUS
  <2>1. i \in 1..Len(slots[r]) /\ slots[r][i] = "delegated"
    OBVIOUS
  <2> QED
    BY <2>1 DEF BossInv
<1> QED
  BY <1>1, <1>2, <1>3, <1>4, <1>5 DEF BossInv

TypeInv == TypeOK /\ BossInv

LEMMA TypeInit == Init => TypeInv
<1> SUFFICES ASSUME Init PROVE TypeInv
  OBVIOUS
<1>1. <<>> \in Seq(Message) /\ <<>> \in Seq(States) /\ Len(<<>>) = 0
  OBVIOUS
<1>2. history \in [Sessions \cup Subs -> Seq(Message)] /\ context \in [All -> Seq(Message)]
  BY <1>1 DEF Init
<1>3. slots \in [All -> Seq(States)] /\ turn \in [All -> Nat] /\ pc \in [All -> Places]
  BY <1>1 DEF Init, Places
<1>4. boss \in [Subs -> (Runs \X Nat) \cup {NoCall}]
  BY DEF Init
<1>5. TypeOK
  BY <1>2, <1>3, <1>4, HomeType DEF TypeOK, Init, States, Places
<1>6. BossInv
  <2>1. \A a \in All : pc[a] = "idle" /\ Len(slots[a]) = 0
    BY <1>1 DEF Init
  <2>2. \A s \in Subs : boss[s] = NoCall /\ ~Active(s)
    BY <2>1, HomeType DEF Init, Active
  <2> QED
    BY <2>1, <2>2, HomeType DEF BossInv
<1> QED
  BY <1>5, <1>6 DEF TypeInv

LEMMA HistoryType == ASSUME TypeOK, [Next]_vars PROVE history' \in [Homes -> Seq(Message)]
<1>1. CASE UNCHANGED history
  BY <1>1 DEF TypeOK, Homes
<1>2. ASSUME NEW a \in All, Says(a) PROVE history' \in [Homes -> Seq(Message)]
  BY <1>2, Spoken, LoopAssumption DEF Says
<1>3. ASSUME NEW a \in All, Reads(a) PROVE history' \in [Homes -> Seq(Message)]
  BY <1>3, ReadIn
<1> QED
  BY <1>1, <1>2, <1>3, HistoryStep, Actors DEF vars

LEMMA ContextType == ASSUME TypeOK, [Next]_vars PROVE context' \in [All -> Seq(Message)]
<1>1. history \in [Homes -> Seq(Message)] /\ context \in [All -> Seq(Message)]
  BY DEF TypeOK, Homes
<1>2. ASSUME NEW h \in Seq(Message) PROVE WorkingMemory(h) \in Seq(Message)
  <2>1. ASSUME NEW q \in (Len(h) - Limit + 1)..Len(h), Len(h) > Limit
        PROVE  SubSeq(h, q, Len(h)) \in Seq(Message)
    BY <2>1, LoopAssumption
  <2>2. <<>> \in Seq(Message)
    OBVIOUS
  <2> QED
    BY <2>1, <2>2, WorkingMemoryShape
<1>3. \A r \in Runs : r \in All /\ WorkingMemory(history[Chat[r]]) \in Seq(Message)
  BY <1>1, <1>2, HomeType
<1>4. \A r \in Runs : Append(context[r], Msg(r, "think", 0)) \in Seq(Message)
  BY <1>1, MessageType, AppendProperties, HomeType DEF Kinds
<1>5. \A s \in Subs : s \in All /\ history[s] \in Seq(Message)
  BY <1>1, HomeType
<1>6. CASE UNCHANGED context
  BY <1>1, <1>6
<1> QED
  BY <1>1, <1>3, <1>4, <1>5, <1>6, ContextStep DEF vars

(* The part of the types that is about control.                            *)
ControlOK ==
  /\ pc \in [All -> Places]
  /\ turn \in [All -> Nat]
  /\ slots \in [All -> Seq(States)]
  /\ \A a \in All : pc[a] \in {"tools", "remind"} => slots[a] # <<>>
  /\ boss \in [Subs -> (Runs \X Nat) \cup {NoCall}]

LEMMA ControlOfTypes == TypeOK => ControlOK
  BY DEF TypeOK, ControlOK, States, Places

(* A run, or a sub-agent at work, goes on without tools.                   *)
LEMMA ControlMoves ==
  ASSUME TypeInv, NEW a \in All, NEW p \in Places \ {"idle", "tools", "remind"},
         a \in Subs => Active(a), pc[a] # "tools" \/ a \in Subs,
         pc' = [pc EXCEPT ![a] = p], turn' \in [All -> Nat], UNCHANGED <<slots, boss>>
  PROVE  ControlOK' /\ BossInv'
<1> USE ControlOfTypes DEF TypeInv
<1>1. ControlOK'
  BY DEF ControlOK
<1>2. \A r \in Runs : pc[r] = "tools" => pc'[r] = "tools"
  BY HomeType DEF ControlOK
<1>3. \A s \in Subs : pc'[s] = pc[s] \/ (pc'[s] # "idle" /\ Active(s))
  BY HomeType DEF ControlOK
<1> QED
  BY <1>1, <1>2, <1>3, BossQuiet DEF ControlOK

LEMMA ControlCalls ==
  ASSUME TypeInv, NEW a \in All, NEW n \in 1..MaxCalls, pc[a] = "act",
         pc' = [pc EXCEPT ![a] = "tools"],
         slots' = [slots EXCEPT ![a] = [i \in 1..n |-> "running"]],
         UNCHANGED <<turn, boss>>
  PROVE  ControlOK' /\ BossInv'
<1> USE ControlOfTypes DEF TypeInv
<1>1. /\ slots' \in [All -> Seq(States)]
      /\ Len(slots'[a]) = n /\ \A i \in 1..n : slots'[a][i] = "running"
      /\ \A b \in All : b # a => slots'[b] = slots[b]
  BY SlotsNew
<1>2. slots'[a] # <<>>
  BY <1>1
<1>3. pc' \in [All -> Places] /\ pc'[a] = "tools" /\ \A b \in All : b # a => pc'[b] = pc[b]
  BY DEF ControlOK, Places
<1>4. ControlOK'
  BY <1>1, <1>2, <1>3 DEF ControlOK
<1>5. \A s \in Subs : boss'[s] # NoCall =>
        \E r \in Runs : \E i \in 1..Len(slots'[r]) :
          boss'[s] = <<r, i>> /\ pc'[r] = "tools" /\ slots'[r][i] = "delegated"
  <2> SUFFICES ASSUME NEW s \in Subs, boss[s] # NoCall
               PROVE  \E r \in Runs : \E i \in 1..Len(slots'[r]) :
                        boss[s] = <<r, i>> /\ pc'[r] = "tools" /\ slots'[r][i] = "delegated"
    OBVIOUS
  <2>1. PICK r \in Runs, i \in Nat :
          i \in 1..Len(slots[r]) /\ boss[s] = <<r, i>> /\ pc[r] = "tools" /\ slots[r][i] = "delegated"
    BY DEF BossInv
  <2>2. r \in All /\ r # a
    BY <2>1, HomeType
  <2> QED
    BY <1>1, <1>3, <2>1, <2>2
<1>6. \A r \in Runs : \A i \in 1..Len(slots'[r]) :
        slots'[r][i] = "delegated" => \E s \in Subs : boss'[s] = <<r, i>>
  <2> SUFFICES ASSUME NEW r \in Runs, NEW i \in 1..Len(slots'[r]), slots'[r][i] = "delegated"
               PROVE  \E s \in Subs : boss[s] = <<r, i>>
    OBVIOUS
  <2>1. r # a
    BY <1>1
  <2>2. slots'[r] = slots[r]
    BY <1>1, <2>1, HomeType
  <2> QED
    BY <2>2 DEF BossInv
<1>7. \A s \in Subs : (Active(s)' => boss'[s] # NoCall) /\ (pc'[s] = "idle" => boss'[s] = NoCall)
  BY <1>3, HomeType DEF BossInv, Active
<1> QED
  BY <1>4, <1>5, <1>6, <1>7 DEF BossInv

LEMMA ControlReturns ==
  ASSUME TypeInv, NEW a \in All, ToolStep(a)
  PROVE  ControlOK' /\ BossInv'
<1> USE ControlOfTypes DEF TypeInv
<1>1. PICK i \in DOMAIN slots[a], res \in {"ok", "error"} : ToolReturns(a, i, res)
  BY DEF ToolStep
<1>2. i \in 1..Len(slots[a]) /\ res \in States /\ res # "delegated" /\ slots[a][i] = "running"
  BY <1>1 DEF ControlOK, States, ToolReturns
<1>3. SetsSlot(a, i, res) /\ UNCHANGED <<pc, turn, boss>>
  BY <1>1 DEF ToolReturns, SetsSlot
<1>4. /\ slots' \in [All -> Seq(States)]
      /\ \A b \in All : Len(slots'[b]) = Len(slots[b])
      /\ \A b \in All : \A j \in 1..Len(slots[b]) :
           slots'[b][j] = IF b = a /\ j = i THEN res ELSE slots[b][j]
  BY <1>2, <1>3, SlotSet
<1>5. ControlOK'
  <2>1. \A b \in All : slots[b] # <<>> => slots'[b] # <<>>
    BY <1>4 DEF ControlOK
  <2> QED
    BY <1>3, <1>4, <2>1 DEF ControlOK
<1>6. \A r \in Runs : \A j \in 1..Len(slots[r]) :
        slots'[r][j] = "delegated" <=> slots[r][j] = "delegated"
  BY <1>2, <1>4, HomeType
<1>7. BossInv'
  BY <1>3, <1>4, <1>6, BossQuiet, HomeType
<1> QED
  BY <1>5, <1>7

LEMMA ControlReads ==
  ASSUME TypeInv, NEW a \in All, pc[a] = "tools", Returned(a),
         NEW p \in {"loop", "remind"}, pc' = [pc EXCEPT ![a] = p],
         UNCHANGED <<turn, slots, boss>>
  PROVE  ControlOK' /\ BossInv'
<1> USE ControlOfTypes DEF TypeInv
<1>1. pc' \in [All -> Places] /\ pc'[a] = p /\ \A b \in All : b # a => pc'[b] = pc[b]
  BY DEF ControlOK, Places
<1>2. ControlOK'
  BY <1>1 DEF ControlOK
<1>3. \A s \in Subs : boss'[s] # NoCall =>
        \E r \in Runs : \E i \in 1..Len(slots'[r]) :
          boss'[s] = <<r, i>> /\ pc'[r] = "tools" /\ slots'[r][i] = "delegated"
  <2> SUFFICES ASSUME NEW s \in Subs, boss[s] # NoCall
               PROVE  \E r \in Runs : \E i \in 1..Len(slots[r]) :
                        boss[s] = <<r, i>> /\ pc'[r] = "tools" /\ slots[r][i] = "delegated"
    OBVIOUS
  <2>1. PICK r \in Runs, i \in Nat :
          i \in 1..Len(slots[r]) /\ boss[s] = <<r, i>> /\ pc[r] = "tools" /\ slots[r][i] = "delegated"
    BY DEF BossInv
  <2>2. i \in DOMAIN slots[r]
    BY <2>1, HomeType DEF ControlOK
  <2>3. r \in All /\ r # a
    BY <2>1, <2>2, HomeType DEF Returned
  <2> QED
    BY <1>1, <2>1, <2>3
<1>4. \A s \in Subs : (Active(s)' => boss'[s] # NoCall) /\ (pc'[s] = "idle" => boss'[s] = NoCall)
  BY <1>1, HomeType DEF BossInv, Active
<1> QED
  BY <1>2, <1>3, <1>4 DEF BossInv

LEMMA ControlDelegates ==
  ASSUME TypeInv, NEW s \in Subs, NEW r \in Runs, NEW i \in DOMAIN slots[r], Delegate(s, r, i)
  PROVE  ControlOK' /\ BossInv'
<1> USE ControlOfTypes, HomeType DEF TypeInv
<1>1. i \in 1..Len(slots[r]) /\ i \in Nat /\ "delegated" \in States
  BY DEF ControlOK, States
<1>2. /\ pc[s] = "idle" /\ pc[r] = "tools" /\ slots[r][i] = "running"
      /\ SetsSlot(r, i, "delegated")
      /\ boss' = [boss EXCEPT ![s] = <<r, i>>]
      /\ pc' = [pc EXCEPT ![s] = "loop"] /\ UNCHANGED turn
  BY DEF Delegate, SetsSlot
<1>3. /\ slots' \in [All -> Seq(States)]
      /\ \A b \in All : Len(slots'[b]) = Len(slots[b])
      /\ \A b \in All : \A j \in 1..Len(slots[b]) :
           slots'[b][j] = IF b = r /\ j = i THEN "delegated" ELSE slots[b][j]
  BY <1>1, <1>2, SlotSet
<1>4. pc' \in [All -> Places] /\ pc'[s] = "loop" /\ \A b \in All : b # s => pc'[b] = pc[b]
  BY <1>2 DEF ControlOK, Places
<1>5. /\ boss' \in [Subs -> (Runs \X Nat) \cup {NoCall}]
      /\ boss'[s] = <<r, i>> /\ \A t \in Subs : t # s => boss'[t] = boss[t]
  BY <1>1, <1>2 DEF ControlOK
<1>6. ControlOK'
  <2>1. \A b \in All : slots[b] # <<>> => slots'[b] # <<>>
    BY <1>3 DEF ControlOK
  <2>2. \A b \in All : pc'[b] \in {"tools", "remind"} => slots'[b] # <<>>
    BY <1>4, <2>1 DEF ControlOK
  <2> QED
    BY <1>2, <1>3, <1>4, <1>5, <2>2 DEF ControlOK
<1>7. <<r, i>> # NoCall
  BY <1>1, LoopAssumption
<1>8. \A t \in Subs : boss[t] # <<r, i>>
  <2> SUFFICES ASSUME NEW t \in Subs, boss[t] # NoCall PROVE boss[t] # <<r, i>>
    BY <1>7
  <2>1. PICK q \in Runs : \E j \in 1..Len(slots[q]) :
          boss[t] = <<q, j>> /\ slots[q][j] = "delegated"
    BY DEF BossInv
  <2> QED
    BY <1>2, <2>1
<1>9. \A t \in Subs : boss'[t] # NoCall =>
        \E q \in Runs : \E j \in 1..Len(slots'[q]) :
          boss'[t] = <<q, j>> /\ pc'[q] = "tools" /\ slots'[q][j] = "delegated"
  <2> SUFFICES ASSUME NEW t \in Subs, boss'[t] # NoCall
               PROVE  \E q \in Runs : \E j \in 1..Len(slots'[q]) :
                        boss'[t] = <<q, j>> /\ pc'[q] = "tools" /\ slots'[q][j] = "delegated"
    OBVIOUS
  <2>1. CASE t = s
    BY <1>1, <1>2, <1>3, <1>4, <1>5, <2>1
  <2>2. CASE t # s
    <3>1. PICK q \in Runs, j \in Nat :
            j \in 1..Len(slots[q]) /\ boss[t] = <<q, j>> /\ pc[q] = "tools" /\ slots[q][j] = "delegated"
      BY <1>5, <2>2 DEF BossInv
    <3>2. boss'[t] = <<q, j>> /\ q \in All /\ q # s
      BY <1>2, <1>5, <2>2, <3>1
    <3>3. pc'[q] = "tools"
      BY <1>4, <3>1, <3>2
    <3>4. ~(q = r /\ j = i)
      BY <1>2, <3>1
    <3>5. j \in 1..Len(slots'[q]) /\ slots'[q][j] = "delegated"
      BY <1>3, <3>1, <3>2, <3>4
    <3> QED
      BY ONLY <3>2, <3>3, <3>5
  <2> QED
    BY <2>1, <2>2
<1>10. \A q \in Runs : \A j \in 1..Len(slots'[q]) :
         slots'[q][j] = "delegated" => \E t \in Subs : boss'[t] = <<q, j>>
  <2> SUFFICES ASSUME NEW q \in Runs, NEW j \in 1..Len(slots'[q]), slots'[q][j] = "delegated"
               PROVE  \E t \in Subs : boss'[t] = <<q, j>>
    OBVIOUS
  <2>1. CASE q = r /\ j = i
    BY <1>5, <2>1
  <2>2. CASE ~(q = r /\ j = i)
    <3>1. j \in 1..Len(slots[q]) /\ slots[q][j] = "delegated"
      BY <1>3, <2>2
    <3>2. PICK t \in Subs : boss[t] = <<q, j>>
      BY <3>1 DEF BossInv
    <3>3. boss[s] = NoCall /\ <<q, j>> # NoCall
      BY <1>2, <3>1, LoopAssumption DEF BossInv
    <3> QED
      BY <1>5, <3>2, <3>3
  <2> QED
    BY <2>1, <2>2
<1>11. \A t \in Subs : (Active(t)' => boss'[t] # NoCall) /\ (pc'[t] = "idle" => boss'[t] = NoCall)
  BY <1>4, <1>5, <1>7 DEF BossInv, Active
<1>12. \A t, u \in Subs : boss'[t] = boss'[u] /\ boss'[t] # NoCall => t = u
  BY <1>5, <1>8 DEF BossInv
<1> QED
  BY <1>6, <1>9, <1>10, <1>11, <1>12 DEF BossInv

LEMMA ControlReports ==
  ASSUME TypeInv, NEW s \in Subs, Report(s)
  PROVE  ControlOK' /\ BossInv'
<1> USE ControlOfTypes, HomeType DEF TypeInv
<1>1. PICK r \in Runs, i \in Nat :
        i \in 1..Len(slots[r]) /\ boss[s] = <<r, i>> /\ pc[r] = "tools" /\ slots[r][i] = "delegated"
  BY DEF BossInv, Report
<1>2. /\ pc[s] \in {"done", "failed"} /\ "ok" \in States
      /\ SetsSlot(r, i, "ok")
      /\ boss' = [boss EXCEPT ![s] = NoCall] /\ UNCHANGED <<pc, turn>>
      /\ r \in All
  BY <1>1 DEF Report, States, SetsSlot
<1>3. /\ slots' \in [All -> Seq(States)]
      /\ \A b \in All : Len(slots'[b]) = Len(slots[b])
      /\ \A b \in All : \A j \in 1..Len(slots[b]) :
           slots'[b][j] = IF b = r /\ j = i THEN "ok" ELSE slots[b][j]
  <2>1. TypeOK /\ r \in All /\ i \in 1..Len(slots[r]) /\ "ok" \in States
    BY <1>1, <1>2
  <2>2. SetsSlot(r, i, "ok")
    BY <1>2
  <2> QED
    BY <2>1, <2>2, SlotSet
<1>4. /\ boss' \in [Subs -> (Runs \X Nat) \cup {NoCall}]
      /\ boss'[s] = NoCall /\ \A t \in Subs : t # s => boss'[t] = boss[t]
  BY <1>2 DEF ControlOK
<1>5. ControlOK'
  <2>1. \A b \in All : slots[b] # <<>> => slots'[b] # <<>>
    BY <1>3 DEF ControlOK
  <2> QED
    BY <1>2, <1>3, <1>4, <2>1 DEF ControlOK
<1>6. \A t \in Subs : boss'[t] # NoCall =>
        \E q \in Runs : \E j \in 1..Len(slots'[q]) :
          boss'[t] = <<q, j>> /\ pc'[q] = "tools" /\ slots'[q][j] = "delegated"
  <2> SUFFICES ASSUME NEW t \in Subs, boss'[t] # NoCall
               PROVE  \E q \in Runs : \E j \in 1..Len(slots'[q]) :
                        boss'[t] = <<q, j>> /\ pc'[q] = "tools" /\ slots'[q][j] = "delegated"
    OBVIOUS
  <2>1. t # s /\ boss'[t] = boss[t] /\ boss[t] # boss[s]
    BY <1>4 DEF BossInv
  <2>2. PICK q \in Runs, j \in Nat :
          j \in 1..Len(slots[q]) /\ boss[t] = <<q, j>> /\ pc[q] = "tools" /\ slots[q][j] = "delegated"
    BY <2>1 DEF BossInv
  <2>3. ~(q = r /\ j = i)
    BY <1>1, <2>1, <2>2
  <2> QED
    BY <1>2, <1>3, <2>1, <2>2, <2>3
<1>7. \A q \in Runs : \A j \in 1..Len(slots'[q]) :
        slots'[q][j] = "delegated" => \E t \in Subs : boss'[t] = <<q, j>>
  <2> SUFFICES ASSUME NEW q \in Runs, NEW j \in 1..Len(slots'[q]), slots'[q][j] = "delegated"
               PROVE  \E t \in Subs : boss'[t] = <<q, j>>
    OBVIOUS
  <2>1. ~(q = r /\ j = i) /\ j \in 1..Len(slots[q]) /\ slots[q][j] = "delegated"
    BY <1>3
  <2>2. PICK t \in Subs : boss[t] = <<q, j>>
    BY <2>1 DEF BossInv
  <2>3. t # s
    BY <1>1, <2>1, <2>2
  <2> QED
    BY <1>4, <2>2, <2>3
<1>8. \A t \in Subs : (Active(t)' => boss'[t] # NoCall) /\ (pc'[t] = "idle" => boss'[t] = NoCall)
  BY <1>2, <1>4 DEF BossInv, Active
<1>9. \A t, u \in Subs : boss'[t] = boss'[u] /\ boss'[t] # NoCall => t = u
  BY <1>4 DEF BossInv
<1> QED
  BY <1>5, <1>6, <1>7, <1>8, <1>9 DEF BossInv

LEMMA TypeNext == TypeInv /\ [Next]_vars => TypeInv'
<1> SUFFICES ASSUME TypeInv, [Next]_vars PROVE TypeInv'
  OBVIOUS
<1>1. history' \in [Homes -> Seq(Message)] /\ context' \in [All -> Seq(Message)]
  BY HistoryType, ContextType DEF TypeInv
<1>2. TypeOK /\ ControlOK
  BY ControlOfTypes DEF TypeInv
<1>3. ASSUME NEW r \in Runs, RunStep(r) PROVE ControlOK' /\ BossInv'
  <2>0. r \in All /\ r \notin Subs
    BY HomeType
  <2>1. CASE UserMessage(r) \/ BeginTurn(r) \/ Think(r) \/ GenerateFails(r) \/ Answer(r) \/ Remind(r)
    <3>1. /\ \E p \in Places \ {"idle", "tools", "remind"} : pc' = [pc EXCEPT ![r] = p]
          /\ pc[r] # "tools" /\ UNCHANGED <<slots, boss>>
      BY <2>1 DEF UserMessage, BeginTurn, Think, GenerateFails, Answer, Remind, Places
    <3>2. turn' \in [All -> Nat]
      BY <1>2, <2>1 DEF UserMessage, BeginTurn, Think, GenerateFails, Answer, Remind, ControlOK
    <3> QED
      BY <2>0, <3>1, <3>2, ControlMoves
  <2>2. CASE \E n \in 1..MaxCalls : CallTools(r, n)
    BY <2>0, <2>2, ControlCalls DEF CallTools
  <2>3. CASE ToolStep(r)
    BY <2>0, <2>3, ControlReturns
  <2>4. CASE Observe(r)
    BY <2>0, <2>4, ControlReads DEF Observe
  <2> QED
    BY <1>3, <2>1, <2>2, <2>3, <2>4 DEF RunStep
<1>4. ASSUME NEW s \in Subs, SubStep(s) PROVE ControlOK' /\ BossInv'
  <2>0. s \in All
    BY HomeType
  <2>1. CASE BeginSubTurn(s) \/ SubGenerateFails(s) \/ SubAnswer(s)
    <3>1. /\ \E p \in Places \ {"idle", "tools", "remind"} : pc' = [pc EXCEPT ![s] = p]
          /\ Active(s) /\ UNCHANGED <<slots, boss>>
      BY <2>1 DEF BeginSubTurn, SubGenerateFails, SubAnswer, Places, Active
    <3>2. turn' \in [All -> Nat]
      <4>1. turn' = turn \/ turn' = [turn EXCEPT ![s] = @ + 1]
        BY <2>1 DEF BeginSubTurn, SubGenerateFails, SubAnswer
      <4> QED
        BY <1>2, <4>1 DEF ControlOK
    <3> QED
      BY <2>0, <3>1, <3>2, ControlMoves
  <2>2. CASE \E n \in 1..MaxCalls : SubCallTools(s, n)
    BY <2>0, <2>2, ControlCalls DEF SubCallTools
  <2>3. CASE SubToolStep(s)
    BY <2>0, <2>3, ControlReturns DEF SubToolStep
  <2>4. CASE SubObserve(s)
    BY <2>0, <2>4, ControlReads DEF SubObserve
  <2>5. CASE \E r \in Runs : \E i \in DOMAIN slots[r] : Delegate(s, r, i)
    BY <2>5, ControlDelegates
  <2>6. CASE Report(s)
    BY <2>6, ControlReports
  <2> QED
    BY <1>4, <2>1, <2>2, <2>3, <2>4, <2>5, <2>6 DEF SubStep
<1>5. ASSUME UNCHANGED vars PROVE ControlOK' /\ BossInv'
  BY <1>2, <1>5 DEF vars, TypeInv, ControlOK, BossInv, Active
<1>6. ControlOK' /\ BossInv'
  BY <1>3, <1>4, <1>5 DEF Next
<1> QED
  BY <1>1, <1>6 DEF TypeInv, TypeOK, ControlOK, Homes, States, Places

LEMMA TypeInvariance == Spec => []TypeInv
  BY TypeInit, TypeNext, PTL DEF Spec

(* The variables keep their types.                                         *)
THEOREM TypeCorrect == Spec => []TypeOK
<1>1. TypeInv => TypeOK
  BY DEF TypeInv
<1> QED
  BY <1>1, TypeInvariance, PTL

-----------------------------------------------------------------------------
(* Sub-agents are isolated.                                                *)
OwnInv ==
  /\ \A s \in Subs : \A i \in 1..Len(history[s]) : history[s][i].run = s
  /\ \A s \in Subs : \A i \in 1..Len(context[s]) : context[s][i].run = s
  /\ \A c \in Sessions : \A i \in 1..Len(history[c]) : history[c][i].run \in Runs

(* What a run or sub-agent adds to its history is its own.                 *)
LEMMA AddsOwn ==
  ASSUME TypeOK, NEW a \in All, Says(a) \/ Reads(a)
  PROVE  /\ \A i \in 1..Len(history'[Home(a)]) :
              \/ i \in 1..Len(history[Home(a)])
                   /\ history'[Home(a)][i] = history[Home(a)][i]
              \/ history'[Home(a)][i].run = a
         /\ \A h \in Homes : h # Home(a) => history'[h] = history[h]
<1>1. history[Home(a)] \in Seq(Message)
  BY HomeType DEF TypeOK, Homes
<1>2. ASSUME NEW kind \in Kinds, NEW k \in Nat, Speaks(a, kind, k)
      PROVE  \A i \in 1..Len(history'[Home(a)]) :
               \/ i \in 1..Len(history[Home(a)])
                    /\ history'[Home(a)][i] = history[Home(a)][i]
               \/ history'[Home(a)][i].run = a
  <2>1. Msg(a, kind, k) \in Message /\ Msg(a, kind, k).run = a
    BY MessageType DEF Msg
  <2>2. history'[Home(a)] = Append(history[Home(a)], Msg(a, kind, k))
    BY <1>2, Spoken
  <2> QED
    BY <1>1, <2>1, <2>2, AppendProperties
<1>3. ASSUME Reads(a)
      PROVE  \A i \in 1..Len(history'[Home(a)]) :
               \/ i \in 1..Len(history[Home(a)])
                    /\ history'[Home(a)][i] = history[Home(a)][i]
               \/ history'[Home(a)][i].run = a
  <2>1. Observations(a) \in Seq(Message)
    BY ObservationsType
  <2>2. history'[Home(a)] = history[Home(a)] \o Observations(a)
    BY <1>3, ReadIn
  <2>3. \A i \in 1..Len(Observations(a)) : Observations(a)[i].run = a
    <3>1. \A i : Msg(a, "obs", i).run = a
      BY DEF Msg
    <3> QED
      BY <3>1, ObservationsType
  <2> QED
    BY <1>1, <2>1, <2>2, <2>3, ConcatProperties
<1> QED
  BY <1>2, <1>3, Spoken, ReadIn, LoopAssumption DEF Says

LEMMA OwnNext == TypeInv /\ OwnInv /\ [Next]_vars => OwnInv'
<1> SUFFICES ASSUME TypeInv, OwnInv, [Next]_vars PROVE OwnInv'
  OBVIOUS
<1> USE HomeType DEF TypeInv
<1>1. CASE UNCHANGED vars
  BY <1>1 DEF vars, OwnInv
<1>2. CASE Next
  <2>1. PICK a \in All : Acts(a)
    BY <1>2, Actors
  <2>2. \/ UNCHANGED history
        \/ /\ \A i \in 1..Len(history'[Home(a)]) :
                \/ i \in 1..Len(history[Home(a)])
                     /\ history'[Home(a)][i] = history[Home(a)][i]
                \/ history'[Home(a)][i].run = a
           /\ \A h \in Homes : h # Home(a) => history'[h] = history[h]
    BY <2>1, HistoryStep, AddsOwn
  <2>3. \A s \in Subs : \A i \in 1..Len(history'[s]) : history'[s][i].run = s
    BY <2>2 DEF OwnInv, Homes, All
  <2>4. \A c \in Sessions : \A i \in 1..Len(history'[c]) : history'[c][i].run \in Runs
    BY <2>2 DEF OwnInv, Homes, All
  <2>5. \A s \in Subs : context'[s] = context[s] \/ context'[s] = history[s]
    BY <1>2, ContextStep DEF TypeOK
  <2>6. \A s \in Subs : \A i \in 1..Len(context'[s]) : context'[s][i].run = s
    BY <2>5 DEF OwnInv
  <2> QED
    BY <2>3, <2>4, <2>6 DEF OwnInv
<1> QED
  BY <1>1, <1>2

(* No sub-agent is ever sent a message of another, and none of its own     *)
(* gets into a chat.                                                       *)
THEOREM IsolationHolds == Spec => []Isolated
<1>1. Init => OwnInv
  BY HomeType DEF Init, OwnInv
<1>2. TypeOK /\ OwnInv => Isolated
  <2> SUFFICES ASSUME TypeOK, OwnInv PROVE Isolated
    OBVIOUS
  <2>1. \A s \in Subs : DOMAIN context[s] = 1..Len(context[s])
    BY HomeType DEF TypeOK
  <2>2. \A c \in Sessions : DOMAIN history[c] = 1..Len(history[c])
    BY DEF TypeOK
  <2> QED
    BY <2>1, <2>2, HomeType DEF Isolated, OwnInv
<1> QED
  BY <1>1, <1>2, OwnNext, TypeInvariance, TypeCorrect, PTL DEF Spec

-----------------------------------------------------------------------------
(* The model's answers in a history.                                       *)
Replies(h) == {i \in 1..Len(h) : h[i].kind \in {"call", "answer"}}

(* A sub-agent has got an answer less than it has begun turns while it     *)
(* waits for one.                                                          *)
TurnsInv ==
  \A s \in Subs :
    /\ IsFiniteSet(Replies(history[s]))
    /\ Cardinality(Replies(history[s])) <= MaxSubTurns
    /\ pc[s] \in {"idle", "loop", "tools"} => Cardinality(Replies(history[s])) <= turn[s]
    /\ pc[s] = "act" => Cardinality(Replies(history[s])) < turn[s] /\ turn[s] <= MaxSubTurns
    /\ pc[s] \notin {"think", "remind"}

LEMMA RepliesAppend ==
  ASSUME NEW h \in Seq(Message), NEW m \in Message, IsFiniteSet(Replies(h))
  PROVE  /\ IsFiniteSet(Replies(Append(h, m)))
         /\ Cardinality(Replies(h)) \in Nat
         /\ Cardinality(Replies(Append(h, m))) =
              Cardinality(Replies(h)) + (IF m.kind \in {"call", "answer"} THEN 1 ELSE 0)
<1> DEFINE n == Len(h) + 1
<1>1. /\ Len(h) \in Nat /\ Len(Append(h, m)) = n /\ Append(h, m)[n] = m
      /\ \A i \in 1..Len(h) : Append(h, m)[i] = h[i]
  BY AppendProperties, LenProperties
<1>2. n \notin Replies(h)
  BY <1>1 DEF Replies
<1>3. 1..n = 1..Len(h) \cup {n}
  BY <1>1
<1>4. CASE m.kind \in {"call", "answer"}
  <2>1. Replies(Append(h, m)) = Replies(h) \cup {n}
    BY <1>1, <1>3, <1>4 DEF Replies
  <2> HIDE DEF n
  <2>2. /\ IsFiniteSet(Replies(h) \cup {n})
        /\ Cardinality(Replies(h) \cup {n}) = Cardinality(Replies(h)) + 1
    BY <1>2, FS_AddElement
  <2> QED
    BY <1>4, <2>1, <2>2, FS_CardinalityType
<1>5. CASE m.kind \notin {"call", "answer"}
  <2>1. Replies(Append(h, m)) = Replies(h)
    BY <1>1, <1>3, <1>5 DEF Replies
  <2> QED
    BY <1>5, <2>1, FS_CardinalityType
<1> QED
  BY <1>4, <1>5

LEMMA RepliesRead ==
  ASSUME TypeOK, NEW h \in Seq(Message), NEW a \in All
  PROVE  Replies(h \o Observations(a)) = Replies(h)
<1> DEFINE o == Observations(a)
           w == h \o o
<1>1. o \in Seq(Message) /\ Len(o) \in Nat /\ Len(h) \in Nat
  BY ObservationsType
<1>2. \A i \in 1..Len(o) : o[i].kind = "obs"
  <2>1. \A i : Msg(a, "obs", i).kind = "obs"
    BY DEF Msg
  <2> QED
    BY <2>1, ObservationsType
<1> HIDE DEF o
<1>3. /\ Len(w) = Len(h) + Len(o)
      /\ \A i \in 1..Len(h) : w[i] = h[i]
      /\ \A i \in 1..Len(w) : i > Len(h) => i - Len(h) \in 1..Len(o) /\ w[i] = o[i - Len(h)]
  BY <1>1, ConcatProperties
<1> HIDE DEF w
<1>4. \A i \in 1..Len(w) : i > Len(h) => w[i].kind = "obs"
  BY <1>2, <1>3
<1>5. \A i \in 1..Len(w) : i \in 1..Len(h) \/ i > Len(h)
  BY <1>1, <1>3
<1>6. 1..Len(h) \subseteq 1..Len(w)
  BY <1>1, <1>3
<1>7. Replies(w) = Replies(h)
  BY <1>3, <1>4, <1>5, <1>6 DEF Replies
<1> QED
  BY <1>7 DEF w, o

(* A step leaves all alone that is not of who takes it.                    *)
LEMMA Elsewhere ==
  ASSUME TypeInv, NEW a \in All, Acts(a)
  PROVE  /\ \A b \in All : b # a => pc'[b] = pc[b] /\ turn'[b] = turn[b]
         /\ \A h \in Homes : h # Home(a) => history'[h] = history[h]
<1>1. pc \in [All -> Places] /\ turn \in [All -> Nat]
  BY DEF TypeInv, TypeOK, Places
<1>2. UNCHANGED turn \/ turn' = [turn EXCEPT ![a] = @ + 1]
  <2>1. CASE a \in Runs /\ RunStep(a)
    BY <2>1 DEF RunStep, UserMessage, BeginTurn, Think, GenerateFails, Answer, CallTools,
                ToolStep, ToolReturns, Observe, Remind
  <2>2. CASE a \in Subs /\ SubStep(a)
    BY <2>2 DEF SubStep, Delegate, BeginSubTurn, SubGenerateFails, SubAnswer, SubCallTools,
                SubToolStep, ToolStep, ToolReturns, SubObserve, Report
  <2> QED
    BY <2>1, <2>2 DEF Acts
<1>3. UNCHANGED pc \/ \E p \in Places : pc' = [pc EXCEPT ![a] = p]
  <2>1. CASE a \in Runs /\ RunStep(a)
    BY <2>1 DEF RunStep, UserMessage, BeginTurn, Think, GenerateFails, Answer, CallTools,
                ToolStep, ToolReturns, Observe, Remind, Places
  <2>2. CASE a \in Subs /\ SubStep(a)
    BY <2>2 DEF SubStep, Delegate, BeginSubTurn, SubGenerateFails, SubAnswer, SubCallTools,
                SubToolStep, ToolStep, ToolReturns, SubObserve, Report, Places
  <2> QED
    BY <2>1, <2>2 DEF Acts
<1>4. \A h \in Homes : h # Home(a) => history'[h] = history[h]
  BY HistoryStep, AddsOwn DEF TypeInv
<1> QED
  BY <1>1, <1>2, <1>3, <1>4

LEMMA TurnsNext == TypeInv /\ TurnsInv /\ [Next]_vars => TurnsInv'
<1> SUFFICES ASSUME TypeInv, TurnsInv, [Next]_vars PROVE TurnsInv'
  OBVIOUS
<1>1. CASE UNCHANGED vars
  BY <1>1 DEF vars, TurnsInv
<1>2. CASE Next
  <2> PICK a \in All : Acts(a)
    BY <1>2, Actors
  <2> SUFFICES ASSUME NEW s \in Subs
               PROVE  /\ IsFiniteSet(Replies(history'[s]))
                      /\ Cardinality(Replies(history'[s])) <= MaxSubTurns
                      /\ pc'[s] \in {"idle", "loop", "tools"} =>
                           Cardinality(Replies(history'[s])) <= turn'[s]
                      /\ pc'[s] = "act" =>
                           Cardinality(Replies(history'[s])) < turn'[s] /\ turn'[s] <= MaxSubTurns
                      /\ pc'[s] \notin {"think", "remind"}
    BY DEF TurnsInv
  <2> DEFINE n == Cardinality(Replies(history[s]))
             m == Cardinality(Replies(history'[s]))
  <2>0. /\ s \in All /\ s \in Homes /\ Home(s) = s /\ history[s] \in Seq(Message)
        /\ turn \in [All -> Nat] /\ pc \in [All -> Places] /\ MaxSubTurns \in Nat
    BY HomeType, LoopAssumption DEF TypeInv, TypeOK, Homes, Places
  <2>1. /\ IsFiniteSet(Replies(history[s])) /\ n \in Nat /\ n <= MaxSubTurns
        /\ pc[s] \in {"idle", "loop", "tools"} => n <= turn[s]
        /\ pc[s] = "act" => n < turn[s] /\ turn[s] <= MaxSubTurns
        /\ pc[s] \notin {"think", "remind"}
    BY FS_CardinalityType DEF TurnsInv
  <2>2. CASE s # a
    <3>1. pc'[s] = pc[s] /\ turn'[s] = turn[s] /\ (s # Home(a) => history'[s] = history[s])
      BY <2>0, <2>2, Elsewhere
    <3>2. s # Home(a)
      BY <2>2, HomeType, LoopAssumption DEF All
    <3> QED
      BY <2>1, <3>1, <3>2
  <2>3. CASE s = a
    <3>0. SubStep(s)
      BY <2>3, HomeType DEF Acts
    <3>1. CASE \E r \in Runs : \E i \in DOMAIN slots[r] : Delegate(s, r, i)
      <4>1. /\ pc[s] = "idle" /\ Speaks(s, "user", 0)
            /\ pc' = [pc EXCEPT ![s] = "loop"] /\ UNCHANGED turn
        BY <3>1 DEF Delegate, Append1, Speaks
      <4>2. history'[s] = Append(history[s], Msg(s, "user", 0)) /\ Msg(s, "user", 0) \in Message
        BY <2>0, <4>1, Spoken, MessageType DEF TypeInv, Kinds
      <4>3. IsFiniteSet(Replies(history'[s])) /\ m = n
        <5>1. Msg(s, "user", 0).kind \notin {"call", "answer"}
          BY DEF Msg
        <5> QED
          BY <2>0, <2>1, <4>2, <5>1, RepliesAppend
      <4> QED
        BY <2>0, <2>1, <4>1, <4>3
    <3>2. CASE SubAnswer(s) \/ \E k \in 1..MaxCalls : SubCallTools(s, k)
      <4>1. PICK kind \in {"answer", "call"}, k \in Nat :
              /\ pc[s] = "act" /\ Speaks(s, kind, k) /\ UNCHANGED turn
              /\ pc' = [pc EXCEPT ![s] = "done"] \/ pc' = [pc EXCEPT ![s] = "tools"]
        BY <3>2, LoopAssumption DEF SubAnswer, SubCallTools, Append1, Speaks
      <4>2. history'[s] = Append(history[s], Msg(s, kind, k)) /\ Msg(s, kind, k) \in Message
        BY <2>0, <4>1, Spoken, MessageType DEF TypeInv, Kinds
      <4>3. IsFiniteSet(Replies(history'[s])) /\ m = n + 1
        <5>1. Msg(s, kind, k).kind \in {"call", "answer"}
          BY DEF Msg
        <5> QED
          BY <2>0, <2>1, <4>2, <5>1, RepliesAppend
      <4>4. (pc'[s] = "done" \/ pc'[s] = "tools") /\ turn'[s] = turn[s] /\ turn[s] \in Nat
        BY <2>0, <4>1
      <4> QED
        BY <2>0, <2>1, <4>1, <4>3, <4>4
    <3>3. CASE SubObserve(s)
      <4>1. Reads(s) /\ pc[s] = "tools" /\ pc' = [pc EXCEPT ![s] = "loop"] /\ UNCHANGED turn
        BY <2>0, <3>3 DEF SubObserve, Reads
      <4>2. history'[s] = history[s] \o Observations(s)
        BY <2>0, <4>1, ReadIn DEF TypeInv
      <4>3. Replies(history'[s]) = Replies(history[s])
        BY <2>0, <4>2, RepliesRead DEF TypeInv
      <4> QED
        BY <2>0, <2>1, <4>1, <4>3
    <3>4. CASE BeginSubTurn(s)
      <4>1. /\ pc[s] = "loop" /\ history' = history /\ turn'[s] = turn[s] + 1
            /\ \/ pc'[s] = "act" /\ turn'[s] <= MaxSubTurns
               \/ pc'[s] = "failed"
        BY <2>0, <3>4 DEF BeginSubTurn
      <4> QED
        BY <2>0, <2>1, <4>1
    <3>5. CASE SubGenerateFails(s) \/ SubToolStep(s) \/ Report(s)
      <4>1. /\ history' = history /\ turn' = turn
            /\ pc'[s] = pc[s] \/ pc'[s] = "failed"
        BY <2>0, <3>5 DEF SubGenerateFails, SubToolStep, ToolStep, ToolReturns, Report
      <4> QED
        BY <2>1, <4>1
    <3> QED
      BY <3>0, <3>1, <3>2, <3>3, <3>4, <3>5 DEF SubStep
  <2> QED
    BY <2>2, <2>3
<1> QED
  BY <1>1, <1>2

(* A sub-agent at work and the call that waits for it belong together, and *)
(* it gets no more answers of the model than its limit.                    *)
THEOREM DelegationHolds == Spec => []DelegationNested
<1>1. Init => TurnsInv
  <2> SUFFICES ASSUME Init PROVE TurnsInv
    OBVIOUS
  <2>1. Replies(<<>>) = {}
    BY DEF Replies
  <2>2. \A s \in Subs : history[s] = <<>> /\ turn[s] = 0 /\ pc[s] = "idle"
    BY HomeType DEF Init
  <2>3. \A s \in Subs : IsFiniteSet(Replies(history[s])) /\ Cardinality(Replies(history[s])) = 0
    BY <2>1, <2>2, FS_EmptySet
  <2> QED
    BY <2>2, <2>3, LoopAssumption DEF TurnsInv
<1>2. TypeInv /\ TurnsInv => DelegationNested
  <2> SUFFICES ASSUME TypeInv, TurnsInv PROVE DelegationNested
    OBVIOUS
  <2>1. /\ \A s \in Subs : DOMAIN history[s] = 1..Len(history[s])
        /\ \A r \in Runs : DOMAIN slots[r] = 1..Len(slots[r])
    BY HomeType DEF TypeInv, TypeOK
  <2>2. \A s \in Subs :
          /\ Active(s) => boss[s] # NoCall
          /\ boss[s] # NoCall =>
               pc[boss[s][1]] = "tools" /\ slots[boss[s][1]][boss[s][2]] = "delegated"
    BY DEF TypeInv, BossInv
  <2>3. \A s \in Subs :
          Cardinality({i \in DOMAIN history[s] : history[s][i].kind \in {"call", "answer"}})
            <= MaxSubTurns
    BY <2>1 DEF TurnsInv, Replies
  <2>4. \A r \in Runs : \A i \in DOMAIN slots[r] :
          slots[r][i] = "delegated" => \E s \in Subs : boss[s] = <<r, i>>
    BY <2>1 DEF TypeInv, BossInv
  <2> QED
    BY <2>2, <2>3, <2>4 DEF DelegationNested
<1> QED
  BY <1>1, <1>2, TurnsNext, TypeInvariance, PTL DEF Spec

-----------------------------------------------------------------------------
(* What is well formed stays so.                                           *)

LEMMA FieldsType ==
  ASSUME NEW h \in Seq(Message), NEW i \in 1..Len(h)
  PROVE  h[i] \in Message /\ h[i].k \in Nat
<1>1. h[i] \in Message
  BY ElementOfSeq
<1> QED
  BY <1>1 DEF Message

LEMMA PlainAppend ==
  ASSUME NEW h \in Seq(Message), NEW m \in Message, WellFormed(h), m.kind \notin {"call", "obs"}
  PROVE  WellFormed(Append(h, m))
<1> DEFINE w == Append(h, m)
<1>1. /\ Len(h) \in Nat /\ Len(w) = Len(h) + 1 /\ w[Len(h) + 1] = m
      /\ \A i \in 1..Len(h) : w[i] = h[i]
  BY AppendProperties, LenProperties
<1> HIDE DEF w
<1>2. ASSUME NEW i \in 1..Len(w), w[i].kind \in {"call", "obs"} PROVE i \in 1..Len(h) /\ w[i] = h[i]
  BY <1>1, <1>2
<1>3. NoOrphans(w)
  <2> SUFFICES ASSUME NEW i \in 1..Len(w), w[i].kind = "obs"
               PROVE  w[i].k < i /\ Observes(w[i], w[i - w[i].k], w[i].k)
    BY DEF NoOrphans
  <2>1. i \in 1..Len(h) /\ w[i] = h[i]
    BY <1>2
  <2>2. h[i].k \in Nat
    BY <2>1, FieldsType
  <2>3. h[i].k < i /\ Observes(h[i], h[i - h[i].k], h[i].k)
    BY <2>1 DEF WellFormed, NoOrphans
  <2>4. w[i - h[i].k] = h[i - h[i].k]
    BY <1>1, <2>1, <2>2, <2>3
  <2> QED
    BY <2>1, <2>3, <2>4
<1>4. AllObserved(w)
  <2> SUFFICES ASSUME NEW i \in 1..Len(w), w[i].kind = "call", NEW k \in 1..w[i].k
               PROVE  i + k <= Len(w) /\ Observes(w[i + k], w[i], k)
    BY DEF AllObserved
  <2>1. i \in 1..Len(h) /\ w[i] = h[i]
    BY <1>2
  <2>2. h[i].k \in Nat
    BY <2>1, FieldsType
  <2>3. i + k <= Len(h) /\ Observes(h[i + k], h[i], k)
    BY <2>1 DEF WellFormed, AllObserved
  <2>4. w[i + k] = h[i + k]
    BY <1>1, <2>1, <2>2, <2>3
  <2> QED
    BY <1>1, <2>1, <2>2, <2>3, <2>4
<1> QED
  BY <1>3, <1>4 DEF WellFormed, w

LEMMA TurnAppend ==
  ASSUME TypeOK, NEW g \in Seq(Message), WellFormed(g), NEW a \in All
  PROVE  WellFormed(Append(g, Msg(a, "call", Len(slots[a]))) \o Observations(a))
<1> DEFINE n == Len(slots[a])
           c == Msg(a, "call", n)
           l == Len(g)
           h == Append(g, c)
           o == Observations(a)
           w == h \o o
<1>1. n \in Nat /\ l \in Nat /\ c \in Message
  BY MessageType DEF TypeOK, Kinds
<1>2. /\ h \in Seq(Message) /\ Len(h) = l + 1 /\ h[l + 1] = c
      /\ \A i \in 1..l : h[i] = g[i]
  BY <1>1, AppendProperties
<1>3. o \in Seq(Message) /\ Len(o) = n /\ \A i \in 1..n : o[i] = Msg(a, "obs", i)
  BY ObservationsType
<1>4. c.kind = "call" /\ c.k = n /\ c.run = a /\ c.turn = turn[a]
  BY DEF Msg
<1>5. \A i : LET m == Msg(a, "obs", i)
             IN  m.kind = "obs" /\ m.k = i /\ m.run = a /\ m.turn = turn[a]
  BY DEF Msg
<1> HIDE DEF n, c, l, h, o
<1>6. Len(w) = l + 1 + n /\ \A i \in 1..Len(w) : w[i] = IF i <= l + 1 THEN h[i] ELSE o[i - (l + 1)]
  <2>1. /\ Len(w) = Len(h) + Len(o)
        /\ \A i \in 1..(Len(h) + Len(o)) : w[i] = IF i <= Len(h) THEN h[i] ELSE o[i - Len(h)]
    BY <1>2, <1>3, ConcatProperties
  <2> QED
    BY <1>2, <1>3, <2>1
<1> HIDE DEF w
<1>7. /\ \A i \in 1..l : w[i] = g[i]
      /\ w[l + 1] = c
      /\ \A i \in 1..n : w[l + 1 + i] = Msg(a, "obs", i)
  <2>1. ASSUME NEW i \in 1..l PROVE w[i] = g[i]
    BY <1>1, <1>2, <1>6
  <2>2. w[l + 1] = c
    BY <1>1, <1>2, <1>6
  <2>3. ASSUME NEW i \in 1..n PROVE w[l + 1 + i] = Msg(a, "obs", i)
    <3>1. l + 1 + i \in 1..Len(w) /\ ~(l + 1 + i <= l + 1) /\ (l + 1 + i) - (l + 1) = i
      BY <1>1, <1>6
    <3> QED
      BY <1>3, <1>6, <3>1
  <2> QED
    BY <2>1, <2>2, <2>3
<1>8. \A i \in 1..n : Observes(w[l + 1 + i], w[l + 1], i)
  BY <1>4, <1>5, <1>7 DEF Observes
<1>9. \A i \in 1..Len(w) : i \in 1..l \/ i = l + 1 \/ (i - (l + 1) \in 1..n /\ i = l + 1 + (i - (l + 1)))
  BY <1>1, <1>6
<1>10. NoOrphans(w)
  <2> SUFFICES ASSUME NEW i \in 1..Len(w), w[i].kind = "obs"
               PROVE  w[i].k < i /\ Observes(w[i], w[i - w[i].k], w[i].k)
    BY DEF NoOrphans
  <2>1. CASE i \in 1..l
    <3>1. w[i] = g[i] /\ g[i].k \in Nat
      BY <1>7, <2>1, FieldsType DEF l
    <3>2. g[i].k < i /\ Observes(g[i], g[i - g[i].k], g[i].k)
      BY <2>1, <3>1 DEF WellFormed, NoOrphans, l
    <3>3. i - g[i].k \in 1..l
      BY <1>1, <2>1, <3>1, <3>2
    <3> QED
      BY <1>7, <3>1, <3>2, <3>3
  <2>2. CASE i = l + 1
    BY <1>4, <1>7, <2>2
  <2>3. CASE i - (l + 1) \in 1..n
    <3> DEFINE j == i - (l + 1)
    <3>1. i = l + 1 + j /\ j \in 1..n
      BY <1>1, <2>3
    <3> HIDE DEF j
    <3>0. w[i] = Msg(a, "obs", j)
      BY <1>7, <3>1
    <3>2. w[i].k = j
      BY <1>5, <3>0
    <3>3. i - j = l + 1 /\ j < i
      BY <1>1, <3>1
    <3> QED
      BY <1>8, <3>1, <3>2, <3>3
  <2> QED
    BY <1>9, <2>1, <2>2, <2>3
<1>11. AllObserved(w)
  <2> SUFFICES ASSUME NEW i \in 1..Len(w), w[i].kind = "call", NEW k \in 1..w[i].k
               PROVE  i + k <= Len(w) /\ Observes(w[i + k], w[i], k)
    BY DEF AllObserved
  <2>1. CASE i \in 1..l
    <3>1. w[i] = g[i] /\ g[i].k \in Nat
      BY <1>7, <2>1, FieldsType DEF l
    <3>2. i + k <= l /\ Observes(g[i + k], g[i], k)
      BY <2>1, <3>1 DEF WellFormed, AllObserved, l
    <3>3. i + k \in 1..l /\ i + k <= Len(w)
      BY <1>1, <1>6, <2>1, <3>1, <3>2
    <3> QED
      BY <1>7, <3>1, <3>2, <3>3
  <2>2. CASE i = l + 1
    <3>1. w[i].k = n
      BY <1>4, <1>7, <2>2
    <3> QED
      BY <1>1, <1>6, <1>8, <2>2, <3>1
  <2>3. CASE i - (l + 1) \in 1..n
    <3>0. PICK j \in 1..n : i = l + 1 + j
      BY <1>9, <2>3, <1>1
    <3>1. w[i].kind = "obs"
      <4>1. w[i] = Msg(a, "obs", j)
        BY <1>7, <3>0
      <4> QED
        BY <1>5, <4>1
    <3> QED
      BY <3>1
  <2> QED
    BY <1>9, <2>1, <2>2, <2>3
<1> QED
  BY <1>10, <1>11 DEF WellFormed, w, h, o, c, n

(* The tail from a message that is no observation.                         *)
LEMMA TailWellFormed ==
  ASSUME NEW h \in Seq(Message), WellFormed(h), NEW q \in 1..Len(h), h[q].kind # "obs"
  PROVE  WellFormed(SubSeq(h, q, Len(h)))
<1> DEFINE w == SubSeq(h, q, Len(h))
<1>1. /\ Len(h) \in Nat /\ w \in Seq(Message) /\ Len(w) = Len(h) - q + 1
      /\ \A i \in 1..Len(w) : q + i - 1 \in 1..Len(h) /\ w[i] = h[q + i - 1]
  OBVIOUS
<1>2. \A p \in 1..Len(h) : h[p].k \in Nat
  BY FieldsType
<1> HIDE DEF w
<1>3. NoOrphans(w)
  <2> SUFFICES ASSUME NEW i \in 1..Len(w), w[i].kind = "obs"
               PROVE  w[i].k < i /\ Observes(w[i], w[i - w[i].k], w[i].k)
    BY DEF NoOrphans
  <2> DEFINE p == q + i - 1
             k == h[p].k
  <2>1. p \in 1..Len(h) /\ w[i] = h[p] /\ k \in Nat
    BY <1>1, <1>2
  <2>2. k < p /\ Observes(h[p], h[p - k], k)
    BY <2>1 DEF WellFormed, NoOrphans
  <2>3. h[p].kind = "obs" /\ h[p - k].kind = "call" /\ k <= h[p - k].k
    BY <2>1, <2>2 DEF Observes
  <2>4. p - k \in 1..Len(h)
    BY <2>1, <2>2
  <2>5. k < i
    <3> SUFFICES ASSUME ~(k < i) PROVE FALSE
      OBVIOUS
    <3>0. h[p - k].k \in Nat
      BY <1>2, <2>4
    <3>1. q - (p - k) \in 1..h[p - k].k /\ (p - k) + (q - (p - k)) = q
      <4>1. p = q + i - 1 /\ i \in 1..Len(w) /\ q \in Nat /\ p \in Nat
        BY <2>1
      <4>2. k >= i /\ h[p - k].kind = "call" /\ k <= h[p - k].k
        BY <1>1, <2>1, <2>3, <4>1
      <4> HIDE DEF p, k
      <4> QED
        BY <1>1, <2>1, <3>0, <4>1, <4>2
    <3>2. Observes(h[(p - k) + (q - (p - k))], h[p - k], q - (p - k))
      BY <2>3, <2>4, <3>1 DEF WellFormed, AllObserved
    <3> QED
      BY <3>1, <3>2 DEF Observes
  <2>6. i - k \in 1..Len(w) /\ q + (i - k) - 1 = p - k
    BY <1>1, <2>1, <2>5
  <2> QED
    BY <1>1, <2>1, <2>2, <2>5, <2>6
<1>4. AllObserved(w)
  <2> SUFFICES ASSUME NEW i \in 1..Len(w), w[i].kind = "call", NEW k \in 1..w[i].k
               PROVE  i + k <= Len(w) /\ Observes(w[i + k], w[i], k)
    BY DEF AllObserved
  <2> DEFINE p == q + i - 1
  <2>1. p \in 1..Len(h) /\ w[i] = h[p] /\ h[p].k \in Nat /\ k \in 1..h[p].k
    BY <1>1, <1>2
  <2>2. p + k <= Len(h) /\ Observes(h[p + k], h[p], k)
    BY <2>1 DEF WellFormed, AllObserved
  <2>3. i + k \in 1..Len(w) /\ q + (i + k) - 1 = p + k
    BY <1>1, <2>1, <2>2
  <2> QED
    BY <1>1, <2>1, <2>2, <2>3
<1> QED
  BY <1>3, <1>4 DEF WellFormed, w

LEMMA WorkingMemoryWellFormed ==
  ASSUME NEW h \in Seq(Message), WellFormed(h)
  PROVE  WellFormed(WorkingMemory(h))
<1>1. WellFormed(<<>>)
  BY DEF WellFormed, NoOrphans, AllObserved
<1>2. ASSUME NEW q \in (Len(h) - Limit + 1)..Len(h), Len(h) > Limit, h[q].kind # "obs"
      PROVE  WellFormed(SubSeq(h, q, Len(h)))
  <2>1. q \in 1..Len(h)
    BY <1>2, LoopAssumption
  <2> QED
    BY <1>2, <2>1, TailWellFormed
<1> QED
  BY <1>1, <1>2, WorkingMemoryShape

LEMMA WorkingMemoryNonempty ==
  ASSUME NEW h \in Seq(Message), WellFormed(h), h # <<>>, MaxCalls < Limit,
         \A i \in 1..Len(h) : h[i].k <= MaxCalls
  PROVE  WorkingMemory(h) # <<>>
<1>1. Len(h) \in Nat \ {0}
  BY EmptySeq
<1>2. ASSUME Len(h) > Limit, \A i \in (Len(h) - Limit + 1)..Len(h) : h[i].kind = "obs"
      PROVE  FALSE
  <2> DEFINE n == Len(h)
             k == h[n].k
  <2>0. n \in 1..n /\ n \in (n - Limit + 1)..n
    BY <1>1, LoopAssumption
  <2>1. h[n].kind = "obs" /\ k \in Nat /\ k <= MaxCalls
    BY <1>2, <2>0, FieldsType
  <2>2. k < n /\ h[n - k].kind = "call"
    BY <2>0, <2>1 DEF WellFormed, NoOrphans, Observes
  <2>3. n - k \in (n - Limit + 1)..n
    BY <2>1, <2>2, LoopAssumption
  <2> QED
    BY <1>2, <2>2, <2>3
<1>3. ASSUME NEW q \in (Len(h) - Limit + 1)..Len(h), Len(h) > Limit
      PROVE  SubSeq(h, q, Len(h)) # <<>>
  <2>1. q \in 1..Len(h) /\ Len(h) - q + 1 > 0
    BY <1>1, <1>3, LoopAssumption
  <2>2. Len(SubSeq(h, q, Len(h))) = Len(h) - q + 1
    BY <1>1, <2>1
  <2>3. Len(SubSeq(h, q, Len(h))) # 0
    BY <1>1, <2>1, <2>2
  <2>4. ASSUME NEW t, Len(t) # 0 PROVE t # <<>>
    BY <2>4
  <2> QED
    BY ONLY <2>3, <2>4
<1> QED
  BY <1>2, <1>3, WorkingMemoryShape

-----------------------------------------------------------------------------
(* What the steps of a run or a sub-agent are to its history.              *)
Goes(a, p, q) == pc[a] = p /\ pc' = [pc EXCEPT ![a] = q]

Starts(a) == Goes(a, "idle", "loop") /\ Speaks(a, "user", 0)

Begins(a) == UNCHANGED history /\ \E q \in {"think", "act", "failed"} : Goes(a, "loop", q)

Thinks(a) == Goes(a, "think", "act") /\ (Speaks(a, "think", 0) \/ UNCHANGED history)

Breaks(a) == UNCHANGED history /\ \E p \in {"think", "act"} : Goes(a, p, "failed")

Answers(a) == Goes(a, "act", "done") /\ Speaks(a, "answer", 0)

Calls(a) ==
  \E n \in 1..MaxCalls :
    /\ Goes(a, "act", "tools") /\ Speaks(a, "call", n)
    /\ slots' = [slots EXCEPT ![a] = [i \in 1..n |-> "running"]]

Observing(a) == Reads(a) /\ \E q \in {"remind", "loop"} : Goes(a, "tools", q)

Reminds(a) == Goes(a, "remind", "loop") /\ (Speaks(a, "reminder", 0) \/ UNCHANGED history)

Stays == UNCHANGED <<history, pc>>

(* No turn gets or loses a call.                                           *)
SameCalls == \A b \in All : Len(slots'[b]) = Len(slots[b])

LEMMA Moves ==
  ASSUME TypeInv, NEW a \in All, Acts(a)
  PROVE  /\ \/ Starts(a) \/ Begins(a) \/ Thinks(a) \/ Breaks(a) \/ Answers(a) \/ Calls(a)
            \/ Observing(a) \/ Reminds(a) \/ Stays
         /\ Calls(a) \/ SameCalls
<1>1. ASSUME NEW b \in All, ToolStep(b) PROVE Stays /\ SameCalls
  <2>1. PICK i \in DOMAIN slots[b], res \in {"ok", "error"} : ToolReturns(b, i, res)
    BY <1>1 DEF ToolStep
  <2>2. i \in 1..Len(slots[b]) /\ res \in States /\ SetsSlot(b, i, res)
    BY <2>1 DEF TypeInv, TypeOK, States, ToolReturns, SetsSlot
  <2> QED
    BY <2>1, <2>2, SlotSet DEF ToolReturns, Stays, SameCalls, TypeInv
<1>2. UNCHANGED slots => SameCalls
  BY DEF SameCalls
<1>3. CASE a \in Runs /\ RunStep(a)
  <2>1. CASE UserMessage(a)
    BY <1>2, <2>1 DEF UserMessage, Starts, Goes, Append1, Speaks
  <2>2. CASE BeginTurn(a)
    BY <1>2, <2>2 DEF BeginTurn, Begins, Goes
  <2>3. CASE Think(a)
    BY <1>2, <2>3 DEF Think, Thinks, Goes, Append1, Speaks
  <2>4. CASE GenerateFails(a)
    BY <1>2, <2>4 DEF GenerateFails, Breaks, Goes
  <2>5. CASE Answer(a)
    BY <1>2, <2>5 DEF Answer, Answers, Goes, Append1, Speaks
  <2>6. CASE \E n \in 1..MaxCalls : CallTools(a, n)
    BY <2>6 DEF CallTools, Calls, Goes, Append1, Speaks
  <2>7. CASE Observe(a)
    BY <1>2, <1>3, <2>7, HomeType DEF Observe, Observing, Goes, Reads
  <2>8. CASE Remind(a)
    BY <1>2, <2>8 DEF Remind, Reminds, Goes, Append1, Speaks
  <2> QED
    BY <1>1, <1>3, <2>1, <2>2, <2>3, <2>4, <2>5, <2>6, <2>7, <2>8 DEF RunStep
<1>4. CASE a \in Subs /\ SubStep(a)
  <2>1. CASE \E r \in Runs : \E i \in DOMAIN slots[r] : Delegate(a, r, i)
    <3>1. PICK r \in Runs, i \in Nat : i \in DOMAIN slots[r] /\ Delegate(a, r, i)
      BY <2>1, HomeType DEF TypeInv, TypeOK
    <3>2. /\ r \in All /\ i \in 1..Len(slots[r]) /\ "delegated" \in States
          /\ SetsSlot(r, i, "delegated")
      BY <3>1, HomeType DEF TypeInv, TypeOK, States, Delegate, SetsSlot
    <3>3. SameCalls
      BY <3>2, SlotSet DEF SameCalls, TypeInv
    <3> QED
      BY <3>1, <3>3 DEF Delegate, Starts, Goes, Append1, Speaks
  <2>2. CASE BeginSubTurn(a)
    BY <1>2, <2>2 DEF BeginSubTurn, Begins, Goes
  <2>3. CASE SubGenerateFails(a)
    BY <1>2, <2>3 DEF SubGenerateFails, Breaks, Goes
  <2>4. CASE SubAnswer(a)
    BY <1>2, <2>4 DEF SubAnswer, Answers, Goes, Append1, Speaks
  <2>5. CASE \E n \in 1..MaxCalls : SubCallTools(a, n)
    BY <2>5 DEF SubCallTools, Calls, Goes, Append1, Speaks
  <2>6. CASE SubObserve(a)
    BY <1>2, <1>4, <2>6, HomeType DEF SubObserve, Observing, Goes, Reads
  <2>7. CASE Report(a)
    <3>1. PICK r \in Runs, i \in Nat : i \in 1..Len(slots[r]) /\ boss[a] = <<r, i>>
      BY <1>4, <2>7 DEF TypeInv, BossInv, Report
    <3>2. r \in All /\ "ok" \in States /\ SetsSlot(r, i, "ok")
      BY <2>7, <3>1, HomeType DEF States, Report, SetsSlot
    <3>3. SameCalls
      <4>1. TypeOK /\ i \in 1..Len(slots[r])
        BY <3>1 DEF TypeInv
      <4> QED
        BY <3>2, <4>1, SlotSet DEF SameCalls
    <3> QED
      BY <2>7, <3>3 DEF Report, Stays
  <2> QED
    BY <1>1, <1>4, <2>1, <2>2, <2>3, <2>4, <2>5, <2>6, <2>7 DEF SubStep, SubToolStep
<1> QED
  BY <1>3, <1>4 DEF Acts

-----------------------------------------------------------------------------
(* One at a time works on a history.                                       *)
SoleInv == \A a, b \in All : Home(a) = Home(b) /\ Active(a) /\ Active(b) => a = b

(* Nobody else is at work on the history of who takes a step.              *)
LEMMA Alone ==
  ASSUME Serial, TypeInv, SoleInv, NEW a \in All, Acts(a), NEW b \in All, b # a,
         Home(b) = Home(a), Active(a) \/ Active(a)'
  PROVE  ~Active(b)
<1>1. a \in Runs /\ b \in Runs /\ Chat[b] = Chat[a]
  BY HomeType, LoopAssumption DEF All
<1>2. CASE Active(a)
  BY <1>2 DEF SoleInv
<1>3. CASE ~Active(a)
  <2>1. RunStep(a) /\ pc[a] \in {"idle", "done", "failed"}
    BY <1>1, <1>3, HomeType DEF Acts, Active
  <2>2. UserMessage(a) \/ ToolStep(a)
    BY <1>3, <2>1 DEF RunStep, BeginTurn, Think, GenerateFails, Answer, CallTools, Observe,
                      Remind, Active
  <2>3. UserMessage(a)
    BY <2>1, <2>2 DEF ToolStep, ToolReturns
  <2> QED
    BY <1>1, <2>3 DEF UserMessage
<1> QED
  BY <1>2, <1>3

LEMMA SoleNext == Serial /\ TypeInv /\ SoleInv /\ [Next]_vars => SoleInv'
<1> SUFFICES ASSUME Serial, TypeInv, SoleInv, [Next]_vars PROVE SoleInv'
  OBVIOUS
<1>1. CASE UNCHANGED vars
  BY <1>1 DEF vars, SoleInv, Active
<1>2. CASE Next
  <2> PICK a \in All : Acts(a)
    BY <1>2, Actors
  <2>1. \A b \in All : b # a => (Active(b)' <=> Active(b))
    BY Elsewhere DEF Active
  <2>2. \A b \in All : b # a /\ Home(b) = Home(a) /\ Active(a)' => ~Active(b)
    BY Alone
  <2>3. \A b, c \in All : Home(b) = Home(c) /\ Active(b) /\ Active(c) => b = c
    BY DEF SoleInv
  <2>4. ASSUME NEW b \in All, NEW c \in All, Home(b) = Home(c), Active(b)', Active(c)', b # c
        PROVE  FALSE
    BY <2>1, <2>2, <2>3, <2>4
  <2> QED
    BY <2>4 DEF SoleInv, Home
<1> QED
  BY <1>1, <1>2

(* The last word was a's, and of one of these kinds.                       *)
LastIs(h, a, kinds) == h # <<>> /\ h[Len(h)].run = a /\ h[Len(h)].kind \in kinds

(* A history that ends in the n calls of a turn of a, and is well formed   *)
(* up to them.                                                             *)
Awaits(h, a, n) ==
  \E g \in Seq(Message) :
    /\ h = Append(g, Msg(a, "call", n))
    /\ WellFormed(g)
    /\ LastIs(g, a, {"user", "think", "obs", "reminder"})

(* What the history of a says of where a is.                               *)
Tells(a) ==
  LET h == history[Home(a)]
  IN  /\ pc[a] = "tools" => Awaits(h, a, Len(slots[a]))
      /\ pc[a] \in {"tools", "remind"} => Len(slots[a]) \in 1..MaxCalls
      /\ pc[a] = "remind" => LastIs(h, a, {"obs"})
      /\ pc[a] \in {"loop", "think"} => LastIs(h, a, {"user", "obs", "reminder"})
      /\ pc[a] = "act" => LastIs(h, a, {"user", "think", "obs", "reminder"})
      /\ pc[a] = "idle" => \A i \in 1..Len(h) : h[i].run # a

NoneAtTools(h) == \A a \in All : Home(a) = h => pc[a] # "tools"

HistoryInv ==
  /\ \A h \in Homes : NoneAtTools(h) => WellFormed(history[h])
  /\ \A a \in All : Tells(a)
  /\ \A h \in Homes : \A i \in 1..Len(history[h]) : history[h][i].k <= MaxCalls

(* A message is the last one where it is appended, the last observation    *)
(* where a turn is.                                                        *)
LEMMA LastAppended ==
  ASSUME TypeOK, NEW a \in All, NEW kind \in Kinds, NEW k \in Nat, NEW h \in Seq(Message),
         NEW kinds, kind \in kinds
  PROVE  LastIs(Append(h, Msg(a, kind, k)), a, kinds)
<1> DEFINE m == Msg(a, kind, k)
           w == Append(h, m)
<1>1. m \in Message /\ m.run = a /\ m.kind = kind
  BY MessageType DEF Msg
<1>2. Len(w) = Len(h) + 1 /\ w[Len(h) + 1] = m /\ Len(h) + 1 # 0
  BY <1>1, AppendProperties, LenProperties
<1>3. Append(h, m) # <<>>
  <2>1. ASSUME NEW t, Len(t) # 0 PROVE t # <<>>
    BY <2>1
  <2> QED
    BY <1>2, <2>1
<1> HIDE DEF w, m
<1>4. w # <<>> /\ w[Len(w)] = m
  BY <1>2, <1>3 DEF w
<1> QED
  BY <1>1, <1>4 DEF LastIs, w, m

LEMMA ConcatElement ==
  ASSUME NEW g \in Seq(Message), NEW o \in Seq(Message), NEW i \in 1..Len(g \o o)
  PROVE  \/ (g \o o)[i] = g[i] /\ i \in 1..Len(g)
         \/ \E j \in 1..Len(o) : (g \o o)[i] = o[j]
<1>1. /\ Len(g \o o) = Len(g) + Len(o)
      /\ \A k \in 1..(Len(g) + Len(o)) : (g \o o)[k] = IF k <= Len(g) THEN g[k] ELSE o[k - Len(g)]
      /\ Len(g) \in Nat /\ Len(o) \in Nat
  BY ConcatProperties, LenProperties
<1>2. (g \o o)[i] = IF i <= Len(g) THEN g[i] ELSE o[i - Len(g)]
  BY <1>1
<1>3. i <= Len(g) => i \in 1..Len(g)
  BY <1>1
<1>4. ~(i <= Len(g)) => i - Len(g) \in 1..Len(o)
  BY <1>1
<1> QED
  BY <1>2, <1>3, <1>4

LEMMA LastObserved ==
  ASSUME TypeOK, NEW a \in All, NEW h \in Seq(Message), slots[a] # <<>>
  PROVE  LastIs(h \o Observations(a), a, {"obs"})
<1> DEFINE o == Observations(a)
           n == Len(slots[a])
           w == h \o o
<1>1. n \in Nat /\ n # 0
  BY EmptySeq DEF TypeOK
<1>2. o \in Seq(Message) /\ Len(o) = n /\ o[n] = Msg(a, "obs", n)
  BY <1>1, ObservationsType
<1>3. Msg(a, "obs", n).run = a /\ Msg(a, "obs", n).kind = "obs"
  BY DEF Msg
<1> HIDE DEF o, n
<1>4. Len(h) \in Nat /\ Len(w) = Len(h) + n /\ w[Len(h) + n] = o[n]
  <2>1. /\ Len(w) = Len(h) + Len(o)
        /\ \A i \in 1..(Len(h) + Len(o)) : w[i] = IF i <= Len(h) THEN h[i] ELSE o[i - Len(h)]
    BY <1>2, ConcatProperties
  <2>2. Len(h) \in Nat /\ Len(h) + n \in 1..(Len(h) + n) /\ ~(Len(h) + n <= Len(h))
        /\ (Len(h) + n) - Len(h) = n
    BY <1>1, LenProperties
  <2> QED
    BY <1>2, <2>1, <2>2
<1>5. w # <<>>
  <2>1. ASSUME NEW t, Len(t) # 0 PROVE t # <<>>
    BY <2>1
  <2>2. Len(w) # 0
    BY <1>1, <1>4
  <2> HIDE DEF w
  <2> QED
    BY <2>1, <2>2
<1> HIDE DEF w
<1>6. w[Len(w)] = Msg(a, "obs", n)
  BY <1>2, <1>4
<1> QED
  BY <1>3, <1>5, <1>6 DEF LastIs, w, o

(* What the step is to others: their histories stay if they are at work.   *)
LEMMA TellsOthers ==
  ASSUME Serial, TypeInv, SoleInv, NEW a \in All, Acts(a), NEW b \in All, b # a, Tells(b)
  PROVE  Tells(b)'
<1>1. pc'[b] = pc[b] /\ turn'[b] = turn[b]
  BY Elsewhere
<1>2. pc[b] \in {"tools", "remind"} => Len(slots'[b]) = Len(slots[b])
  <2>1. Calls(a) => slots'[b] = slots[b]
    BY DEF Calls, TypeInv, TypeOK
  <2> QED
    BY <2>1, Moves DEF SameCalls
<1>3. CASE Active(b)
  <2>1. history'[Home(b)] = history[Home(b)]
    <3>1. CASE Home(b) # Home(a)
      BY <3>1, Elsewhere, HomeType
    <3>2. CASE Home(b) = Home(a)
      <4>1. ~Active(a) /\ ~Active(a)'
        BY <1>3, <3>2, Alone
      <4>2. Stays
        BY <4>1, Moves DEF Starts, Begins, Thinks, Breaks, Answers, Calls, Observing, Reminds,
                           Goes, Active, TypeInv, TypeOK
      <4> QED
        BY <4>2 DEF Stays
    <3> QED
      BY <3>1, <3>2
  <2>2. \A n : Msg(b, "call", n)' = Msg(b, "call", n)
    BY <1>1 DEF Msg
  <2>3. pc[b] = "tools" => Awaits(history[Home(b)], b, Len(slots[b]))'
    <3> SUFFICES ASSUME pc[b] = "tools" PROVE Awaits(history[Home(b)], b, Len(slots[b]))'
      OBVIOUS
    <3>1. PICK g \in Seq(Message) :
            /\ history[Home(b)] = Append(g, Msg(b, "call", Len(slots[b])))
            /\ WellFormed(g)
            /\ LastIs(g, b, {"user", "think", "obs", "reminder"})
      BY DEF Tells, Awaits
    <3>2. history'[Home(b)] = Append(g, Msg(b, "call", Len(slots[b]))')
      BY <1>2, <2>1, <2>2, <3>1
    <3> QED
      BY <3>1, <3>2 DEF Awaits, Home
  <2> QED
    BY <1>1, <1>2, <1>3, <2>1, <2>3 DEF Tells, Active, Home
<1>4. CASE ~Active(b)
  <2>1. pc[b] \in {"idle", "done", "failed"}
    BY <1>4 DEF Active
  <2>2. history[Home(b)] \in Seq(Message) /\ Home(b) \in Homes
    BY HomeType DEF TypeInv, TypeOK, Homes
  <2>3. \A i \in 1..Len(history'[Home(b)]) :
          \/ i \in 1..Len(history[Home(b)]) /\ history'[Home(b)][i] = history[Home(b)][i]
          \/ history'[Home(b)][i].run # b
    BY <2>2, HistoryStep, AddsOwn DEF TypeInv
  <2>4. pc[b] = "idle" => \A i \in 1..Len(history'[Home(b)]) : history'[Home(b)][i].run # b
    BY <2>3 DEF Tells
  <2> QED
    BY <1>1, <2>1, <2>4 DEF Tells, Home
<1> QED
  BY <1>3, <1>4

(* Only a turn that begins gets a new number.                              *)
LEMMA TurnSame == ASSUME NEW a \in All, Acts(a), pc[a] # "loop" PROVE turn' = turn
<1>1. CASE a \in Runs /\ RunStep(a)
  BY <1>1 DEF RunStep, UserMessage, BeginTurn, Think, GenerateFails, Answer, CallTools,
              ToolStep, ToolReturns, Observe, Remind
<1>2. CASE a \in Subs /\ SubStep(a)
  BY <1>2 DEF SubStep, Delegate, BeginSubTurn, SubGenerateFails, SubAnswer, SubCallTools,
              SubToolStep, ToolStep, ToolReturns, SubObserve, Report
<1> QED
  BY <1>1, <1>2 DEF Acts

(* What it is to the history of who takes it.                              *)
LEMMA TellsOwn ==
  ASSUME Serial, TypeInv, SoleInv, HistoryInv, NEW a \in All, Acts(a)
  PROVE  Tells(a)'
<1> DEFINE H == Home(a)
<1>0. /\ TypeOK /\ pc \in [All -> Places] /\ H \in Homes /\ history[H] \in Seq(Message)
      /\ Tells(a)
  BY HomeType DEF TypeInv, TypeOK, Homes, Places, HistoryInv
<1>1. \A q \in Places, p \in Places : Goes(a, p, q) => pc[a] = p /\ pc'[a] = q
  BY <1>0 DEF Goes
<1>2. ASSUME NEW kind \in Kinds, Speaks(a, kind, 0), NEW kinds, kind \in kinds
      PROVE  LastIs(history'[H], a, kinds)
  BY <1>0, <1>2, Spoken, LastAppended
<1>3. \A kinds, more : kinds \subseteq more /\ LastIs(history[H], a, kinds) => LastIs(history[H], a, more)
  BY DEF LastIs
<1>4. CASE Starts(a)
  <2>1. pc'[a] = "loop" /\ LastIs(history'[H], a, {"user", "obs", "reminder"})
    BY <1>1, <1>2, <1>4 DEF Starts, Places, Kinds
  <2> QED
    BY <2>1 DEF Tells, Home
<1>5. CASE Begins(a)
  <2>1. pc[a] = "loop" /\ pc'[a] \in {"think", "act", "failed"} /\ history' = history
    BY <1>1, <1>5 DEF Begins, Places
  <2>2. /\ LastIs(history'[H], a, {"user", "obs", "reminder"})
        /\ LastIs(history'[H], a, {"user", "think", "obs", "reminder"})
    BY <1>0, <1>3, <2>1 DEF Tells
  <2> QED
    BY <2>1, <2>2 DEF Tells, Home
<1>6. CASE Thinks(a)
  <2>1. pc[a] = "think" /\ pc'[a] = "act"
    BY <1>1, <1>6 DEF Thinks, Places
  <2>2. LastIs(history'[H], a, {"user", "think", "obs", "reminder"})
    <3>1. CASE Speaks(a, "think", 0)
      BY <1>2, <3>1 DEF Kinds
    <3>2. CASE UNCHANGED history
      BY <1>0, <1>3, <2>1, <3>2 DEF Tells
    <3> QED
      BY <1>6, <3>1, <3>2 DEF Thinks
  <2> QED
    BY <2>1, <2>2 DEF Tells, Home
<1>7. CASE Breaks(a) \/ Answers(a)
  <2>1. pc'[a] \in {"failed", "done"}
    BY <1>1, <1>7 DEF Breaks, Answers, Places
  <2> QED
    BY <2>1 DEF Tells
<1>8. CASE Calls(a)
  <2>1. PICK n \in 1..MaxCalls :
          /\ Goes(a, "act", "tools") /\ Speaks(a, "call", n)
          /\ slots' = [slots EXCEPT ![a] = [i \in 1..n |-> "running"]]
    BY <1>8 DEF Calls
  <2>0. pc[a] = "act" /\ pc'[a] = "tools"
    BY <1>1, <2>1 DEF Places
  <2>2. pc[a] = "act" /\ pc'[a] = "tools" /\ Len(slots'[a]) = n /\ n \in Nat
    <3>1. slots' = [slots EXCEPT ![a] = [i \in 1..n |-> "running"]]
      BY <2>1
    <3>2. Len(slots'[a]) = n
      BY ONLY <1>0, <3>1, n \in 1..MaxCalls, a \in All, SlotsNew
    <3> QED
      BY <2>0, <3>2
  <2>3. history'[H] = Append(history[H], Msg(a, "call", n))
    BY <1>0, <2>1, <2>2, Spoken DEF Kinds
  <2>4. WellFormed(history[H])
    <3>1. NoneAtTools(H)
      <4> SUFFICES ASSUME NEW b \in All, Home(b) = H PROVE pc[b] # "tools"
        BY DEF NoneAtTools
      <4>1. CASE b = a
        BY <2>2, <4>1
      <4>2. CASE b # a
        <5>1. ~Active(b)
          BY <2>2, <4>2, Alone DEF Active
        <5> QED
          BY <5>1 DEF Active
      <4> QED
        BY <4>1, <4>2
    <3> QED
      BY <1>0, <3>1 DEF HistoryInv
  <2>5. LastIs(history[H], a, {"user", "think", "obs", "reminder"})
    BY <1>0, <2>2 DEF Tells
  <2>6. turn'[a] = turn[a]
    BY <1>8, <2>2, TurnSame
  <2>7. Awaits(history[H], a, Len(slots[a]))'
    <3>1. Msg(a, "call", n)' = Msg(a, "call", n)
      BY <2>6 DEF Msg
    <3>2. history'[H] = Append(history[H], Msg(a, "call", Len(slots[a]))')
      BY <2>2, <2>3, <3>1
    <3> QED
      BY <1>0, <2>4, <2>5, <3>2 DEF Awaits, Home
  <2> QED
    BY <2>1, <2>2, <2>7 DEF Tells, Home
<1>9. CASE Observing(a)
  <2>1. pc[a] = "tools" /\ pc'[a] \in {"remind", "loop"}
    BY <1>1, <1>9 DEF Observing, Places
  <2>2. history'[H] = history[H] \o Observations(a)
    BY <1>0, <1>9, ReadIn DEF Observing
  <2>3. slots[a] # <<>>
    BY <1>0, <2>1 DEF TypeOK
  <2>4. LastIs(history'[H], a, {"obs"})
    BY <1>0, <2>2, <2>3, LastObserved
  <2>5. LastIs(history'[H], a, {"user", "obs", "reminder"})
    BY <2>4 DEF LastIs
  <2>6. Len(slots'[a]) \in 1..MaxCalls
    <3>1. ~Calls(a)
      BY <1>1, <2>1 DEF Calls, Places
    <3>2. Len(slots'[a]) = Len(slots[a])
      BY <3>1, Moves DEF SameCalls
    <3> QED
      BY <1>0, <2>1, <3>2 DEF Tells
  <2> QED
    BY <2>1, <2>4, <2>5, <2>6 DEF Tells, Home
<1>10. CASE Reminds(a)
  <2>1. pc[a] = "remind" /\ pc'[a] = "loop"
    BY <1>1, <1>10 DEF Reminds, Places
  <2>2. LastIs(history'[H], a, {"user", "obs", "reminder"})
    <3>1. CASE Speaks(a, "reminder", 0)
      BY <1>2, <3>1 DEF Kinds
    <3>2. CASE UNCHANGED history
      BY <1>0, <1>3, <2>1, <3>2 DEF Tells
    <3> QED
      BY <1>10, <3>1, <3>2 DEF Reminds
  <2> QED
    BY <2>1, <2>2 DEF Tells, Home
<1>11. CASE Stays
  <2>0. ~Calls(a)
    BY <1>1, <1>11 DEF Calls, Stays, Places
  <2>1. pc' = pc /\ history' = history /\ Len(slots'[a]) = Len(slots[a])
    BY <1>11, <2>0, Moves DEF Stays, SameCalls
  <2>2. pc[a] = "tools" => Awaits(history[H], a, Len(slots[a]))'
    <3> SUFFICES ASSUME pc[a] = "tools" PROVE Awaits(history[H], a, Len(slots[a]))'
      OBVIOUS
    <3>1. turn'[a] = turn[a]
      BY TurnSame
    <3>2. Msg(a, "call", Len(slots[a]))' = Msg(a, "call", Len(slots[a]))
      BY <2>1, <3>1 DEF Msg
    <3>3. Awaits(history[H], a, Len(slots[a]))
      BY <1>0 DEF Tells
    <3> QED
      BY <2>1, <3>2, <3>3 DEF Awaits, Home
  <2> QED
    BY <1>0, <2>1, <2>2 DEF Tells, Home
<1> QED
  BY <1>4, <1>5, <1>6, <1>7, <1>8, <1>9, <1>10, <1>11, Moves

(* The history on which a step works is well formed again after it.        *)
LEMMA HomeWellFormed ==
  ASSUME Serial, TypeInv, SoleInv, HistoryInv, NEW a \in All, Acts(a), NoneAtTools(Home(a))'
  PROVE  WellFormed(history'[Home(a)])
<1> DEFINE H == Home(a)
<1>0. /\ TypeOK /\ pc \in [All -> Places] /\ H \in Homes /\ history[H] \in Seq(Message)
      /\ Tells(a) /\ (NoneAtTools(H) => WellFormed(history[H]))
  BY HomeType DEF TypeInv, TypeOK, Homes, Places, HistoryInv
<1>1. pc'[a] # "tools" /\ \A b \in All : b # a /\ Home(b) = H => pc[b] # "tools"
  <2>1. \A b \in All : Home(b) = H => pc'[b] # "tools"
    BY DEF NoneAtTools, Home
  <2> QED
    BY <2>1, Elsewhere
<1>2. CASE pc[a] # "tools"
  <2>1. WellFormed(history[H])
    BY <1>0, <1>1, <1>2 DEF NoneAtTools
  <2>2. ASSUME NEW kind \in Kinds \ {"call", "obs"}, Speaks(a, kind, 0)
        PROVE  WellFormed(history'[H])
    <3>1. Msg(a, kind, 0) \in Message /\ Msg(a, kind, 0).kind = kind
      BY <1>0, MessageType DEF Msg
    <3>2. history'[H] = Append(history[H], Msg(a, kind, 0))
      BY <1>0, <2>2, Spoken
    <3> QED
      BY <1>0, <2>1, <3>1, <3>2, PlainAppend
  <2>3. ~Calls(a)
    BY <1>0, <1>1 DEF Calls, Goes, Places
  <2>4. ~Observing(a)
    BY <1>2 DEF Observing, Goes
  <2>5. \/ UNCHANGED history
        \/ \E kind \in Kinds \ {"call", "obs"} : Speaks(a, kind, 0)
    BY <2>3, <2>4, Moves DEF Starts, Begins, Thinks, Breaks, Answers, Reminds, Stays, Kinds
  <2> QED
    BY <2>1, <2>2, <2>5
<1>3. CASE pc[a] = "tools"
  <2>1. Observing(a)
    BY <1>1, <1>3, Moves DEF Starts, Begins, Thinks, Breaks, Answers, Calls, Reminds, Stays, Goes
  <2>2. PICK g \in Seq(Message) :
          history[H] = Append(g, Msg(a, "call", Len(slots[a]))) /\ WellFormed(g)
    BY <1>0, <1>3 DEF Tells, Awaits
  <2>3. history'[H] = history[H] \o Observations(a)
    BY <1>0, <2>1, ReadIn DEF Observing
  <2>4. WellFormed(Append(g, Msg(a, "call", Len(slots[a]))) \o Observations(a))
    BY <1>0, <2>2, TurnAppend
  <2> QED
    BY <2>2, <2>3, <2>4
<1> QED
  BY <1>2, <1>3

LEMMA HistoryNext ==
  Serial /\ TypeInv /\ SoleInv /\ HistoryInv /\ [Next]_vars => HistoryInv'
<1> SUFFICES ASSUME Serial, TypeInv, SoleInv, HistoryInv, [Next]_vars PROVE HistoryInv'
  OBVIOUS
<1>1. CASE UNCHANGED vars
  <2>1. \A a, n : Msg(a, "call", n)' = Msg(a, "call", n)
    BY <1>1 DEF Msg, vars
  <2>2. \A h, a, n : Awaits(h, a, n)' = Awaits(h, a, n)
    BY <2>1 DEF Awaits
  <2>3. \A a \in All : Tells(a)'
    BY <1>1, <2>2 DEF Tells, HistoryInv, vars, Home
  <2>4. \A h \in Homes : NoneAtTools(h)' => WellFormed(history'[h])
    BY <1>1 DEF HistoryInv, vars, NoneAtTools, Home
  <2> QED
    BY <1>1, <2>3, <2>4 DEF HistoryInv, vars
<1>2. CASE Next
  <2> PICK a \in All : Acts(a)
    BY <1>2, Actors
  <2>1. ASSUME NEW b \in All PROVE Tells(b)'
    BY TellsOwn, TellsOthers DEF HistoryInv
  <2>2. ASSUME NEW h \in Homes, NoneAtTools(h)' PROVE WellFormed(history'[h])
    <3>1. CASE h = Home(a)
      <4>1. NoneAtTools(Home(a))'
        BY <2>2, <3>1 DEF NoneAtTools, Home
      <4> QED
        BY <3>1, <4>1, HomeWellFormed
    <3>2. CASE h # Home(a)
      <4>1. NoneAtTools(h)
        BY <2>2, <3>2, Elsewhere DEF NoneAtTools, Home
      <4> QED
        BY <3>2, <4>1, Elsewhere DEF HistoryInv
    <3> QED
      BY <3>1, <3>2
  <2>3. ASSUME NEW h \in Homes, NEW i \in 1..Len(history'[h]) PROVE history'[h][i].k <= MaxCalls
    <3>1. CASE h # Home(a) \/ UNCHANGED history
      BY <2>3, <3>1, Elsewhere DEF HistoryInv
    <3>2. CASE h = Home(a) /\ Says(a)
      <4>1. PICK kind \in Kinds, k \in 0..MaxCalls : Speaks(a, kind, k)
        BY <3>2 DEF Says
      <4>2. /\ history[h] \in Seq(Message) /\ k \in Nat
            /\ Msg(a, kind, k) \in Message /\ Msg(a, kind, k).k = k
        BY <4>1, MessageType, LoopAssumption DEF TypeInv, TypeOK, Homes, Msg
      <4>3. history'[h] = Append(history[h], Msg(a, kind, k))
        BY <3>2, <4>1, <4>2, Spoken DEF TypeInv
      <4>4. \/ history'[h][i] = history[h][i] /\ i \in 1..Len(history[h])
            \/ history'[h][i] = Msg(a, kind, k)
        BY <2>3, <4>2, <4>3, AppendProperties
      <4> QED
        BY <4>1, <4>2, <4>4 DEF HistoryInv
    <3>3. CASE h = Home(a) /\ Reads(a)
      <4> DEFINE o == Observations(a)
      <4>1. /\ history[h] \in Seq(Message) /\ o \in Seq(Message) /\ Len(o) = Len(slots[a])
            /\ \A j \in 1..Len(o) : o[j] = Msg(a, "obs", j)
        BY ObservationsType DEF TypeInv, TypeOK, Homes
      <4>2. Len(o) \in 1..MaxCalls
        BY <3>3, <4>1 DEF HistoryInv, Tells, Reads
      <4>3. \A j : Msg(a, "obs", j).k = j
        BY DEF Msg
      <4>4. history'[h] = history[h] \o o
        BY <3>3, ReadIn DEF TypeInv
      <4> HIDE DEF o
      <4>5. \/ history'[h][i] = history[h][i] /\ i \in 1..Len(history[h])
            \/ \E j \in 1..Len(o) : history'[h][i] = o[j]
        <5>1. i \in 1..Len(history[h] \o o)
          BY <2>3, <4>4
        <5>2. \/ (history[h] \o o)[i] = history[h][i] /\ i \in 1..Len(history[h])
              \/ \E j \in 1..Len(o) : (history[h] \o o)[i] = o[j]
          BY <4>1, <5>1, ConcatElement
        <5> QED
          BY <4>4, <5>2
      <4>6. CASE history'[h][i] = history[h][i] /\ i \in 1..Len(history[h])
        BY <4>6 DEF HistoryInv
      <4>7. CASE \E j \in 1..Len(o) : history'[h][i] = o[j]
        <5>1. PICK j \in 1..Len(o) : history'[h][i].k = j
          BY <4>1, <4>3, <4>7
        <5>2. MaxCalls \in Nat
          BY LoopAssumption
        <5> QED
          BY <4>2, <5>1, <5>2
      <4> QED
        BY <4>5, <4>6, <4>7
    <3> QED
      BY <3>1, <3>2, <3>3, HistoryStep
  <2> QED
    BY <2>1, <2>2, <2>3 DEF HistoryInv
<1> QED
  BY <1>1, <1>2

LEMMA HistoryInit == Init => SoleInv /\ HistoryInv
<1> SUFFICES ASSUME Init PROVE SoleInv /\ HistoryInv
  OBVIOUS
<1>1. /\ \A h \in Homes : history[h] = <<>>
      /\ \A a \in All : pc[a] = "idle" /\ ~Active(a)
      /\ Len(<<>>) = 0
  BY DEF Init, Homes, Active
<1>2. WellFormed(<<>>)
  BY DEF WellFormed, NoOrphans, AllObserved
<1>3. \A a \in All : Tells(a)
  BY <1>1, HomeType DEF Tells
<1>4. SoleInv
  BY <1>1 DEF SoleInv
<1> QED
  BY <1>1, <1>2, <1>3, <1>4 DEF HistoryInv

LEMMA HistoryInvariance == ASSUME Serial PROVE Spec => []SoleInv /\ []HistoryInv
<1>1. SoleInv /\ TypeInv /\ [Next]_vars => SoleInv'
  BY SoleNext
<1>2. HistoryInv /\ SoleInv /\ TypeInv /\ [Next]_vars => HistoryInv'
  BY HistoryNext
<1> QED
  BY <1>1, <1>2, HistoryInit, TypeInvariance, PTL DEF Spec

(* As long as the prompts of a chat wait for each other, no run, however   *)
(* it ends and whatever its tools and its sub-agents did, leaves a history *)
(* with a call that has no result or a result that has no call.            *)
THEOREM RestingHolds == ASSUME Serial PROVE Spec => []RestingWellFormed
<1>1. HistoryInv => RestingWellFormed
  <2> SUFFICES ASSUME HistoryInv, NEW s \in Sessions, \A r \in Runs : Chat[r] = s => ~Active(r)
               PROVE  WellFormed(history[s])
    BY DEF RestingWellFormed
  <2>1. ASSUME NEW a \in All, Home(a) = s PROVE pc[a] # "tools"
    <3>1. a \in Runs /\ Chat[a] = s
      BY <2>1, HomeType DEF All
    <3> QED
      BY <3>1 DEF Active
  <2> QED
    BY <2>1 DEF HistoryInv, NoneAtTools, Homes
<1> QED
  BY <1>1, HistoryInvariance, PTL

-----------------------------------------------------------------------------
(* What is sent.                                                           *)
ContextInv ==
  \A a \in All :
    pc[a] \in {"think", "act"} => WellFormed(context[a]) /\ context[a] # <<>>

LEMMA ContextMoves ==
  ASSUME TypeInv, NEW a \in All, Acts(a)
  PROVE  /\ \A b \in All : b # a => context'[b] = context[b]
         /\ \/ pc'[a] \notin {"think", "act"}
            \/ pc'[a] = pc[a] /\ context'[a] = context[a]
            \/ /\ pc[a] = "loop"
               /\ context'[a] \in {WorkingMemory(history[Home(a)]), history[Home(a)]}
            \/ /\ pc[a] = "think"
               /\ context'[a] \in {context[a], Append(context[a], Msg(a, "think", 0))}
<1>0. context \in [All -> Seq(Message)] /\ pc \in [All -> Places]
  BY DEF TypeInv, TypeOK, Places
<1>1. CASE a \in Runs /\ RunStep(a)
  <2>0. Home(a) = Chat[a]
    BY <1>1, HomeType
  <2>1. CASE BeginTurn(a)
    BY <1>0, <2>0, <2>1 DEF BeginTurn
  <2>2. CASE Think(a)
    BY <1>0, <2>2 DEF Think
  <2>3. CASE UserMessage(a) \/ GenerateFails(a) \/ Answer(a) \/ Observe(a) \/ Remind(a)
             \/ \E n \in 1..MaxCalls : CallTools(a, n)
    BY <1>0, <2>3 DEF UserMessage, GenerateFails, Answer, Observe, Remind, CallTools
  <2>4. CASE ToolStep(a)
    BY <1>0, <2>4 DEF ToolStep, ToolReturns
  <2> QED
    BY <1>1, <2>1, <2>2, <2>3, <2>4 DEF RunStep
<1>2. CASE a \in Subs /\ SubStep(a)
  <2>0. Home(a) = a
    BY <1>2, HomeType
  <2>1. CASE BeginSubTurn(a)
    BY <1>0, <2>0, <2>1 DEF BeginSubTurn
  <2>2. CASE SubGenerateFails(a) \/ SubAnswer(a) \/ SubObserve(a)
             \/ \E n \in 1..MaxCalls : SubCallTools(a, n)
    BY <1>0, <2>2 DEF SubGenerateFails, SubAnswer, SubObserve, SubCallTools
  <2>3. CASE SubToolStep(a)
    BY <1>0, <2>3 DEF SubToolStep, ToolStep, ToolReturns
  <2>4. CASE \E r \in Runs : \E i \in DOMAIN slots[r] : Delegate(a, r, i)
    BY <1>0, <2>4 DEF Delegate
  <2>5. CASE Report(a)
    BY <1>0, <2>5 DEF Report
  <2> QED
    BY <1>2, <2>1, <2>2, <2>3, <2>4, <2>5 DEF SubStep
<1> QED
  BY <1>1, <1>2 DEF Acts

LEMMA ContextNext ==
  ASSUME Serial, MaxCalls < Limit, TypeInv, SoleInv, HistoryInv, ContextInv, [Next]_vars
  PROVE  ContextInv'
<1>1. CASE UNCHANGED vars
  BY <1>1 DEF vars, ContextInv
<1>2. CASE Next
  <2> PICK a \in All : Acts(a)
    BY <1>2, Actors
  <2> SUFFICES ASSUME NEW b \in All, pc'[b] \in {"think", "act"}
               PROVE  WellFormed(context'[b]) /\ context'[b] # <<>>
    BY DEF ContextInv
  <2>1. CASE b # a
    BY <2>1, ContextMoves, Elsewhere DEF ContextInv
  <2>2. CASE b = a
    <3> DEFINE h == history[Home(a)]
    <3>1. CASE pc'[a] = pc[a] /\ context'[a] = context[a]
      BY <2>2, <3>1 DEF ContextInv
    <3>2. CASE pc[a] = "loop" /\ context'[a] \in {WorkingMemory(h), h}
      <4>1. h \in Seq(Message) /\ h # <<>> /\ \A i \in 1..Len(h) : h[i].k <= MaxCalls
        BY <3>2, HomeType DEF TypeInv, TypeOK, Homes, HistoryInv, Tells, LastIs
      <4>2. WellFormed(h)
        <5>1. ASSUME NEW c \in All, Home(c) = Home(a) PROVE pc[c] # "tools"
          BY <3>2, <5>1, Alone DEF Active
        <5> QED
          BY <5>1, HomeType DEF HistoryInv, NoneAtTools
      <4> QED
        BY <2>2, <3>2, <4>1, <4>2, WorkingMemoryWellFormed, WorkingMemoryNonempty
    <3>3. CASE /\ pc[a] = "think"
               /\ context'[a] \in {context[a], Append(context[a], Msg(a, "think", 0))}
      <4>1. context[a] \in Seq(Message) /\ WellFormed(context[a]) /\ context[a] # <<>>
        BY <3>3 DEF ContextInv, TypeInv, TypeOK
      <4>2. Msg(a, "think", 0) \in Message /\ Msg(a, "think", 0).kind = "think"
        BY MessageType DEF Kinds, Msg, TypeInv
      <4>3. /\ WellFormed(Append(context[a], Msg(a, "think", 0)))
            /\ Append(context[a], Msg(a, "think", 0)) # <<>>
        BY <4>1, <4>2, PlainAppend, AppendProperties
      <4> QED
        BY <2>2, <3>3, <4>1, <4>3
    <3> QED
      BY <2>2, <3>1, <3>2, <3>3, ContextMoves
  <2> QED
    BY <2>1, <2>2
<1> QED
  BY <1>1, <1>2

(* As long as the prompts of a chat wait for each other, and the working   *)
(* memory is larger than the calls of a turn are many, whatever is sent to *)
(* a model is well formed, and some of it is left after the cut.           *)
THEOREM SentHolds == ASSUME Serial, MaxCalls < Limit PROVE Spec => []SentWellFormed
<1>1. Init => ContextInv
  BY DEF Init, ContextInv
<1>2. ContextInv => SentWellFormed
  BY DEF ContextInv, SentWellFormed
<1>3. TypeInv /\ SoleInv /\ HistoryInv /\ ContextInv /\ [Next]_vars => ContextInv'
  BY ContextNext
<1> QED
  BY <1>1, <1>2, <1>3, HistoryInvariance, TypeInvariance, PTL DEF Spec

-----------------------------------------------------------------------------
(* A chat grows by whole turns: the steps of Dialogue.                     *)
Note(m) == [kind |-> m.kind, run |-> m.run, k |-> m.k]

Notes(h) == [i \in 1..Len(h) |-> Note(h[i])]

NoteSet == [kind : Kinds, run : All, k : Nat]

LEMMA NotesType ==
  ASSUME NEW h \in Seq(Message)
  PROVE  /\ Notes(h) \in Seq(NoteSet) /\ Len(Notes(h)) = Len(h)
         /\ DOMAIN Notes(h) = 1..Len(h)
         /\ \A i \in 1..Len(h) : Notes(h)[i] = Note(h[i])
<1>1. \A i \in 1..Len(h) : Note(h[i]) \in NoteSet
  <2>1. \A m \in Message : Note(m) \in NoteSet
    BY DEF Message, Note, NoteSet
  <2> QED
    BY <2>1, ElementOfSeq
<1>2. Len(h) \in Nat
  BY LenProperties
<1>3. Notes(h) \in [1..Len(h) -> NoteSet]
  BY <1>1 DEF Notes
<1> QED
  BY <1>2, <1>3 DEF Notes

LEMMA NotesAppend ==
  ASSUME NEW h \in Seq(Message), NEW m \in Message
  PROVE  Notes(Append(h, m)) = Notes(h) \o <<Note(m)>>
<1> DEFINE w == Append(h, m)
           v == Notes(h) \o <<Note(m)>>
<1>1. /\ Len(h) \in Nat /\ w \in Seq(Message) /\ Len(w) = Len(h) + 1 /\ w[Len(h) + 1] = m
      /\ \A i \in 1..Len(h) : w[i] = h[i]
  BY AppendProperties, LenProperties
<1>2. /\ Notes(h) \in Seq(NoteSet) /\ Len(Notes(h)) = Len(h)
      /\ \A i \in 1..Len(h) : Notes(h)[i] = Note(h[i])
  BY NotesType
<1>3. /\ Notes(w) \in Seq(NoteSet) /\ Len(Notes(w)) = Len(h) + 1
      /\ \A i \in 1..(Len(h) + 1) : Notes(w)[i] = Note(w[i])
  BY <1>1, NotesType
<1>4. Note(m) \in NoteSet
  BY DEF Message, Note, NoteSet
<1>5. /\ v \in Seq(NoteSet) /\ Len(v) = Len(h) + 1
      /\ v[Len(h) + 1] = Note(m)
      /\ \A i \in 1..Len(h) : v[i] = Notes(h)[i]
  <2> DEFINE g == Notes(h)
  <2> HIDE DEF g
  <2>1. g \o <<Note(m)>> = Append(g, Note(m))
    BY <1>2, <1>4 DEF g
  <2>2. g \in Seq(NoteSet) /\ Len(g) = Len(h)
    BY <1>2 DEF g
  <2>3. /\ Append(g, Note(m)) \in Seq(NoteSet) /\ Len(Append(g, Note(m))) = Len(g) + 1
        /\ Append(g, Note(m))[Len(g) + 1] = Note(m)
        /\ \A i \in 1..Len(g) : Append(g, Note(m))[i] = g[i]
    BY <1>4, <2>2, AppendProperties
  <2> QED
    BY <2>1, <2>2, <2>3 DEF g
<1> HIDE DEF w, v
<1>6. \A i \in 1..(Len(h) + 1) : i \in 1..Len(h) \/ i = Len(h) + 1
  BY <1>1
<1>7. \A i \in 1..(Len(h) + 1) : Notes(w)[i] = v[i]
  BY <1>1, <1>2, <1>3, <1>5, <1>6
<1>8. Notes(w) = v
  BY <1>3, <1>5, <1>7, SeqEqual
<1> QED
  BY <1>8 DEF w, v

LEMMA NotesConcat ==
  ASSUME NEW h \in Seq(Message), NEW o \in Seq(Message)
  PROVE  Notes(h \o o) = Notes(h) \o Notes(o)
<1> DEFINE w == h \o o
           v == Notes(h) \o Notes(o)
<1>1. /\ Len(h) \in Nat /\ Len(o) \in Nat /\ w \in Seq(Message) /\ Len(w) = Len(h) + Len(o)
      /\ \A i \in 1..(Len(h) + Len(o)) : w[i] = IF i <= Len(h) THEN h[i] ELSE o[i - Len(h)]
  BY ConcatProperties, LenProperties
<1>2. /\ Notes(h) \in Seq(NoteSet) /\ Len(Notes(h)) = Len(h)
      /\ \A i \in 1..Len(h) : Notes(h)[i] = Note(h[i])
  BY NotesType
<1>3. /\ Notes(o) \in Seq(NoteSet) /\ Len(Notes(o)) = Len(o)
      /\ \A i \in 1..Len(o) : Notes(o)[i] = Note(o[i])
  BY NotesType
<1>4. /\ Notes(w) \in Seq(NoteSet) /\ Len(Notes(w)) = Len(h) + Len(o)
      /\ \A i \in 1..(Len(h) + Len(o)) : Notes(w)[i] = Note(w[i])
  BY <1>1, NotesType
<1>5. /\ v \in Seq(NoteSet) /\ Len(v) = Len(h) + Len(o)
      /\ \A i \in 1..(Len(h) + Len(o)) :
           v[i] = IF i <= Len(h) THEN Notes(h)[i] ELSE Notes(o)[i - Len(h)]
  <2> DEFINE g == Notes(h)
             u == Notes(o)
  <2>1. g \in Seq(NoteSet) /\ u \in Seq(NoteSet) /\ Len(g) = Len(h) /\ Len(u) = Len(o)
    BY <1>2, <1>3
  <2> HIDE DEF g, u
  <2>2. /\ g \o u \in Seq(NoteSet) /\ Len(g \o u) = Len(g) + Len(u)
        /\ \A i \in 1..(Len(g) + Len(u)) : (g \o u)[i] = IF i <= Len(g) THEN g[i] ELSE u[i - Len(g)]
    BY <2>1, ConcatProperties
  <2>3. /\ g \o u \in Seq(NoteSet) /\ Len(g \o u) = Len(h) + Len(o)
        /\ \A i \in 1..(Len(h) + Len(o)) : (g \o u)[i] = IF i <= Len(h) THEN g[i] ELSE u[i - Len(h)]
    BY <2>1, <2>2
  <2> QED
    BY <2>3 DEF g, u
<1> HIDE DEF w, v
<1>6. ASSUME NEW i \in 1..(Len(h) + Len(o)) PROVE Notes(w)[i] = v[i]
  <2>1. CASE i <= Len(h)
    <3>1. i \in 1..Len(h)
      BY <1>1, <2>1
    <3> QED
      BY <1>1, <1>2, <1>4, <1>5, <2>1, <3>1
  <2>2. CASE ~(i <= Len(h))
    <3>1. i - Len(h) \in 1..Len(o)
      BY <1>1, <2>2
    <3> QED
      BY <1>1, <1>3, <1>4, <1>5, <2>2, <3>1
  <2> QED
    BY <2>1, <2>2
<1>7. Notes(w) = v
  BY <1>4, <1>5, <1>6, SeqEqual
<1> QED
  BY <1>7 DEF w, v

(* What is settled is the whole history, or all but the call that waits.   *)
LEMMA SettledAll ==
  ASSUME TypeOK, NEW c \in Sessions, NoneAtTools(c)
  PROVE  Settled(c) = Notes(history[c])
<1>1. ~\E r \in Runs : Chat[r] = c /\ pc[r] = "tools"
  BY HomeType DEF NoneAtTools
<1> QED
  BY <1>1 DEF Settled, Notes, Note

LEMMA SettledAllNext ==
  ASSUME TypeOK', NEW c \in Sessions, NoneAtTools(c)'
  PROVE  Settled(c)' = Notes(history'[c])
<1>1. ~\E r \in Runs : Chat[r] = c /\ pc'[r] = "tools"
  BY HomeType DEF NoneAtTools, Home
<1> QED
  BY <1>1 DEF Settled, Notes, Note

LEMMA SettledWaiting ==
  ASSUME TypeOK, NEW a \in Runs, pc[a] = "tools",
         NEW g \in Seq(Message), NEW m \in Message, history[Chat[a]] = Append(g, m)
  PROVE  Settled(Chat[a]) = Notes(g)
<1> DEFINE h == history[Chat[a]]
<1>1. Len(g) \in Nat /\ Len(h) - 1 = Len(g) /\ \A i \in 1..Len(g) : h[i] = g[i]
  BY AppendProperties, LenProperties
<1>2. \E r \in Runs : Chat[r] = Chat[a] /\ pc[r] = "tools"
  OBVIOUS
<1>3. Settled(Chat[a]) = [i \in 1..(Len(h) - 1) |-> Note(h[i])]
  BY <1>2 DEF Settled, Note
<1> HIDE DEF h
<1>4. Settled(Chat[a]) = [i \in 1..Len(g) |-> Note(h[i])]
  BY <1>1, <1>3
<1> QED
  BY <1>1, <1>4 DEF Notes

LEMMA SettledWaitingNext ==
  ASSUME TypeOK', NEW a \in Runs, pc'[a] = "tools",
         NEW g \in Seq(Message), NEW m \in Message, history'[Chat[a]] = Append(g, m)
  PROVE  Settled(Chat[a])' = Notes(g)
<1> DEFINE h == history'[Chat[a]]
<1>1. Len(g) \in Nat /\ Len(h) - 1 = Len(g) /\ \A i \in 1..Len(g) : h[i] = g[i]
  BY AppendProperties, LenProperties
<1>2. \E r \in Runs : Chat[r] = Chat[a] /\ pc'[r] = "tools"
  OBVIOUS
<1>3. Settled(Chat[a])' = [i \in 1..(Len(h) - 1) |-> Note(h[i])]
  BY <1>2 DEF Settled, Note
<1> HIDE DEF h
<1>4. Settled(Chat[a])' = [i \in 1..Len(g) |-> Note(h[i])]
  BY <1>1, <1>3
<1> QED
  BY <1>1, <1>4 DEF Notes

LEMMA SettledSame ==
  ASSUME NEW c \in Sessions, history'[c] = history[c],
         \A r \in Runs : Chat[r] = c => (pc'[r] = "tools" <=> pc[r] = "tools")
  PROVE  Settled(c)' = Settled(c)
<1>1. (\E r \in Runs : Chat[r] = c /\ pc'[r] = "tools")
        <=> (\E r \in Runs : Chat[r] = c /\ pc[r] = "tools")
  OBVIOUS
<1>2. CASE \E r \in Runs : Chat[r] = c /\ pc[r] = "tools"
  BY <1>1, <1>2 DEF Settled
<1>3. CASE ~\E r \in Runs : Chat[r] = c /\ pc[r] = "tools"
  BY <1>1, <1>3 DEF Settled
<1> QED
  BY <1>2, <1>3

LEMMA SettledOthers ==
  ASSUME Serial, TypeInv, SoleInv, HistoryInv, NEW a \in All, Acts(a),
         NEW c \in Sessions, c # Home(a)
  PROVE  Settled(c)' = Settled(c)
<1>1. history'[c] = history[c]
  BY Elsewhere DEF Homes
<1>2. \A r \in Runs : Chat[r] = c => r # a /\ pc'[r] = pc[r]
  BY Elsewhere, HomeType
<1> QED
  BY <1>1, <1>2, SettledSame

(* A run whose chat is not waiting for a call says something.              *)
LEMMA SettledSaid ==
  ASSUME Serial, TypeInv, SoleInv, NEW a \in Runs, Acts(a),
         NEW kind \in Kinds, Speaks(a, kind, 0), NoneAtTools(Chat[a]), pc'[a] # "tools"
  PROVE  Settled(Chat[a])' =
           Settled(Chat[a]) \o <<[kind |-> kind, run |-> a, k |-> 0]>>
<1> DEFINE c == Chat[a]
           m == Msg(a, kind, 0)
<1>0. TypeOK /\ TypeOK' /\ a \in All /\ Home(a) = c /\ c \in Sessions /\ history[c] \in Seq(Message)
  BY HomeType, TypeNext, StepOf DEF TypeInv, TypeOK
<1>1. history'[c] = Append(history[c], m) /\ m \in Message
  BY <1>0, Spoken, MessageType
<1>2. NoneAtTools(c)'
  <2> SUFFICES ASSUME NEW b \in All, Home(b) = c PROVE pc'[b] # "tools"
    BY DEF NoneAtTools, Home
  <2> QED
    BY <1>0, Elsewhere DEF NoneAtTools
<1>3. Settled(c) = Notes(history[c])
  BY <1>0, SettledAll
<1>4. Settled(c)' = Notes(history'[c])
  BY <1>0, <1>2, SettledAllNext
<1>5. Note(m) = [kind |-> kind, run |-> a, k |-> 0]
  BY DEF Note, Msg
<1>6. Notes(Append(history[c], m)) = Notes(history[c]) \o <<Note(m)>>
  BY <1>0, <1>1, NotesAppend
<1> QED
  BY <1>1, <1>3, <1>4, <1>5, <1>6

Log == [c \in Sessions |-> Settled(c)]

LEMMA LogSays ==
  ASSUME Serial, TypeInv, SoleInv, HistoryInv, NEW a \in Runs, Acts(a), NEW messages,
         Settled(Chat[a])' = Settled(Chat[a]) \o messages
  PROVE  Talk!Says(a, messages)
<1>1. \A c \in Sessions : c # Chat[a] => Settled(c)' = Settled(c)
  BY SettledOthers, HomeType
<1>2. Log' = [Log EXCEPT ![Chat[a]] = @ \o messages]
  BY <1>1, HomeType DEF Log
<1> QED
  BY <1>2 DEF Talk!Says, Log

LEMMA LogSame ==
  ASSUME Serial, TypeInv, SoleInv, HistoryInv, NEW a \in All, Acts(a),
         a \in Runs => Settled(Chat[a])' = Settled(Chat[a])
  PROVE  UNCHANGED Log
<1>1. \A c \in Sessions : Settled(c)' = Settled(c)
  <2> SUFFICES ASSUME NEW c \in Sessions PROVE Settled(c)' = Settled(c)
    OBVIOUS
  <2>1. CASE c # Home(a)
    BY <2>1, SettledOthers
  <2>2. CASE c = Home(a)
    <3>1. a \in Runs /\ Chat[a] = c
      BY <2>2, HomeType DEF All
    <3> QED
      BY <3>1
  <2> QED
    BY <2>1, <2>2
<1> QED
  BY <1>1 DEF Log

LEMMA LogAfter ==
  ASSUME NEW a \in Runs, NEW h \in Seq(Message), Settled(Chat[a]) = Notes(h),
         NEW kinds, LastIs(h, a, kinds)
  PROVE  Talk!After(a, kinds)
<1>1. Len(h) \in Nat /\ Len(h) # 0
  BY EmptySeq, LenProperties DEF LastIs
<1>2. Len(Notes(h)) = Len(h) /\ Notes(h)[Len(h)] = Note(h[Len(h)])
  BY <1>1, NotesType
<1>3. Notes(h) # <<>>
  <2>1. ASSUME NEW t, Len(t) # 0 PROVE t # <<>>
    BY <2>1
  <2> QED
    BY <1>1, <1>2, <2>1
<1>4. Note(h[Len(h)]).run = a /\ Note(h[Len(h)]).kind \in kinds
  BY DEF LastIs, Note
<1>5. Log[Chat[a]] = Notes(h)
  BY HomeType DEF Log
<1> DEFINE l == Notes(h)
<1>6. l # <<>> /\ l[Len(l)].run = a /\ l[Len(l)].kind \in kinds
  BY <1>2, <1>3, <1>4
<1> HIDE DEF l
<1> QED
  BY <1>5, <1>6 DEF Talk!After, Log, l

(* The results of a turn come into the chat together with its calls.       *)
LEMMA TurnSettles ==
  ASSUME Serial, TypeInv, SoleInv, HistoryInv, NEW a \in Runs, Acts(a), Observing(a)
  PROVE  \E n \in 1..MaxCalls : Talk!Turn(a, n)
<1> DEFINE c == Chat[a]
           n == Len(slots[a])
           m == Msg(a, "call", n)
           o == Observations(a)
           messages == <<Talk!Note(a, "call", n)>> \o [k \in 1..n |-> Talk!Note(a, "obs", k)]
<1>0. /\ TypeOK /\ TypeOK' /\ a \in All /\ Home(a) = c /\ c \in Sessions
      /\ history[c] \in Seq(Message) /\ Tells(a) /\ pc[a] = "tools" /\ pc'[a] # "tools"
  BY HomeType, TypeNext, StepOf DEF TypeInv, TypeOK, HistoryInv, Observing, Goes
<1>1. n \in 1..MaxCalls /\ m \in Message
  BY <1>0, MessageType DEF Tells, Kinds
<1>2. PICK g \in Seq(Message) :
        history[c] = Append(g, m) /\ LastIs(g, a, {"user", "think", "obs", "reminder"})
  BY <1>0 DEF Tells, Awaits
<1>3. Settled(c) = Notes(g)
  BY <1>0, <1>1, <1>2, SettledWaiting
<1>4. NoneAtTools(c)'
  <2> SUFFICES ASSUME NEW b \in All, Home(b) = c PROVE pc'[b] # "tools"
    BY DEF NoneAtTools, Home
  <2>1. CASE b = a
    BY <1>0, <2>1
  <2>2. CASE b # a
    <3>1. ~Active(b)
      BY <1>0, <2>2, Alone DEF Active
    <3> QED
      BY <1>0, <2>2, <3>1, Elsewhere DEF Active
  <2> QED
    BY <2>1, <2>2
<1>5. Settled(c)' = Notes(history'[c])
  BY <1>0, <1>4, SettledAllNext
<1>6. history'[c] = Append(g, m) \o o
  BY <1>0, <1>2, ReadIn DEF Observing
<1>7. o \in Seq(Message) /\ Notes(o) = [k \in 1..n |-> Talk!Note(a, "obs", k)]
  <2>1. \A k : Note(Msg(a, "obs", k)) = Talk!Note(a, "obs", k)
    BY DEF Note, Msg, Talk!Note
  <2>2. o \in Seq(Message) /\ Len(o) = n /\ \A k \in 1..n : o[k] = Msg(a, "obs", k)
    BY <1>0, ObservationsType
  <2> HIDE DEF o, n
  <2> QED
    BY <2>1, <2>2 DEF Notes
<1>8. Note(m) = Talk!Note(a, "call", n)
  BY DEF Note, Msg, Talk!Note
<1>9. Notes(history'[c]) = Notes(g) \o messages
  <2>1. Append(g, m) \in Seq(Message)
    BY <1>1, AppendProperties
  <2>2. Notes(Append(g, m) \o o) = (Notes(g) \o <<Note(m)>>) \o Notes(o)
    BY <1>1, <1>7, <2>1, NotesAppend, NotesConcat
  <2>3. Notes(g) \in Seq(NoteSet) /\ <<Note(m)>> \in Seq(NoteSet) /\ Notes(o) \in Seq(NoteSet)
    <3>1. Note(m) \in NoteSet
      BY <1>1 DEF Message, Note, NoteSet
    <3> QED
      BY <1>7, <3>1, NotesType
  <2>4. (Notes(g) \o <<Note(m)>>) \o Notes(o) = Notes(g) \o (<<Note(m)>> \o Notes(o))
    BY <2>3, ConcatAssociative
  <2> QED
    BY <1>6, <1>7, <1>8, <2>2, <2>4
<1>10. Talk!Says(a, messages)
  BY <1>3, <1>5, <1>9, LogSays
<1>11. Talk!After(a, {"user", "think", "obs", "reminder"})
  BY <1>2, <1>3, LogAfter
<1>12. Talk!Turn(a, n)
  BY <1>10, <1>11 DEF Talk!Turn
<1> QED
  BY <1>1, <1>12

(* Every step of a run or a sub-agent is one of Dialogue or none.          *)
LEMMA DialogueStep ==
  ASSUME Serial, TypeInv, SoleInv, HistoryInv, NEW a \in All, Acts(a)
  PROVE  Talk!Next \/ UNCHANGED Log
<1>1. CASE a \in Subs
  <2>1. a \notin Runs
    BY <1>1, HomeType
  <2> QED
    BY <2>1, LogSame
<1>2. CASE a \in Runs
  <2> DEFINE c == Chat[a]
  <2>0. /\ TypeOK /\ TypeOK' /\ a \in All /\ Home(a) = c /\ c \in Sessions
        /\ history[c] \in Seq(Message) /\ Tells(a) /\ pc \in [All -> Places]
    BY <1>2, HomeType, TypeNext, StepOf DEF TypeInv, TypeOK, HistoryInv, Places
  <2>1. ASSUME Active(a) \/ Active(a)', pc[a] # "tools"
        PROVE  NoneAtTools(c) /\ Settled(c) = Notes(history[c])
    <3>1. NoneAtTools(c)
      <4> SUFFICES ASSUME NEW b \in All, Home(b) = c PROVE pc[b] # "tools"
        BY DEF NoneAtTools
      <4>1. CASE b = a
        BY <2>1, <4>1
      <4>2. CASE b # a
        <5>1. ~Active(b)
          BY <2>0, <2>1, <4>2, Alone
        <5> QED
          BY <5>1 DEF Active
      <4> QED
        BY <4>1, <4>2
    <3> QED
      BY <2>0, <3>1, SettledAll
  <2>2. ASSUME NEW kind \in Kinds, Speaks(a, kind, 0), Active(a) \/ Active(a)',
               pc[a] # "tools", pc'[a] # "tools"
        PROVE  Talk!Says(a, <<Talk!Note(a, kind, 0)>>)
    <3>1. Settled(c)' = Settled(c) \o <<[kind |-> kind, run |-> a, k |-> 0]>>
      BY <1>2, <2>1, <2>2, SettledSaid
    <3>2. Settled(c)' = Settled(c) \o <<Talk!Note(a, kind, 0)>>
      BY <3>1 DEF Talk!Note
    <3> QED
      BY <1>2, <3>2, LogSays
  <2>3. ASSUME UNCHANGED history, pc[a] # "tools", pc'[a] # "tools" PROVE UNCHANGED Log
    <3>1. \A r \in Runs : pc'[r] = "tools" <=> pc[r] = "tools"
      BY <2>3, Elsewhere, HomeType
    <3>2. Settled(c)' = Settled(c)
      BY <2>0, <2>3, <3>1, SettledSame
    <3> QED
      BY <3>2, LogSame
  <2>4. CASE Starts(a)
    <3>1. pc[a] = "idle" /\ pc'[a] = "loop" /\ Speaks(a, "user", 0)
      BY <2>0, <2>4 DEF Starts, Goes
    <3>2. Talk!Says(a, <<Talk!Note(a, "user", 0)>>)
      BY <2>2, <3>1 DEF Kinds, Active
    <3>3. Settled(c) = Notes(history[c])
      BY <2>1, <3>1 DEF Active
    <3>4. \A i \in 1..Len(history[c]) : Note(history[c][i]).run # a
      BY <2>0, <3>1 DEF Tells, Note
    <3>5. \A i \in DOMAIN Log[c] : Log[c][i].run # a
      <4>1. Log[c] = Notes(history[c])
        BY <2>0, <3>3 DEF Log
      <4> QED
        BY <2>0, <3>4, <4>1, NotesType
    <3>6. Talk!Prompt(a)
      BY <3>2, <3>5 DEF Talk!Prompt, Log
    <3> QED
      BY <1>2, <3>6 DEF Talk!Next
  <2>5. CASE Begins(a)
    <3>1. UNCHANGED history /\ pc[a] # "tools" /\ pc'[a] # "tools"
      BY <2>0, <2>5 DEF Begins, Goes
    <3> QED
      BY <2>3, <3>1
  <2>6. CASE Breaks(a)
    <3>1. UNCHANGED history /\ pc[a] # "tools" /\ pc'[a] # "tools"
      BY <2>0, <2>6 DEF Breaks, Goes
    <3> QED
      BY <2>3, <3>1
  <2>7. CASE Thinks(a)
    <3>1. pc[a] = "think" /\ pc'[a] = "act"
      BY <2>0, <2>7 DEF Thinks, Goes
    <3>2. CASE UNCHANGED history
      BY <2>3, <3>1, <3>2
    <3>3. CASE Speaks(a, "think", 0)
      <4>1. Talk!Says(a, <<Talk!Note(a, "think", 0)>>)
        BY <2>2, <3>1, <3>3 DEF Kinds, Active
      <4>2. Settled(c) = Notes(history[c]) /\ LastIs(history[c], a, {"user", "obs", "reminder"})
        BY <2>0, <2>1, <3>1 DEF Active, Tells
      <4>3. Talk!After(a, {"user", "obs", "reminder"})
        BY <1>2, <2>0, <4>2, LogAfter
      <4> QED
        BY <1>2, <4>1, <4>3 DEF Talk!Next, Talk!Thought
    <3> QED
      BY <2>7, <3>2, <3>3 DEF Thinks
  <2>8. CASE Answers(a)
    <3>1. pc[a] = "act" /\ pc'[a] = "done" /\ Speaks(a, "answer", 0)
      BY <2>0, <2>8 DEF Answers, Goes
    <3>2. Talk!Says(a, <<Talk!Note(a, "answer", 0)>>)
      BY <2>2, <3>1 DEF Kinds, Active
    <3>3. /\ Settled(c) = Notes(history[c])
          /\ LastIs(history[c], a, {"user", "think", "obs", "reminder"})
      BY <2>0, <2>1, <3>1 DEF Active, Tells
    <3>4. Talk!After(a, {"user", "think", "obs", "reminder"})
      BY <1>2, <2>0, <3>3, LogAfter
    <3> QED
      BY <1>2, <3>2, <3>4 DEF Talk!Next, Talk!Answer
  <2>9. CASE Calls(a)
    <3>1. PICK n \in 1..MaxCalls : Goes(a, "act", "tools") /\ Speaks(a, "call", n)
      BY <2>9 DEF Calls
    <3>2. pc[a] = "act" /\ pc'[a] = "tools" /\ n \in Nat
      BY <2>0, <3>1 DEF Goes
    <3>3. history'[c] = Append(history[c], Msg(a, "call", n)) /\ Msg(a, "call", n) \in Message
      BY <2>0, <3>1, <3>2, Spoken, MessageType DEF Kinds
    <3>4. Settled(c)' = Notes(history[c])
      BY <1>2, <2>0, <3>2, <3>3, SettledWaitingNext
    <3>5. Settled(c) = Notes(history[c])
      BY <2>1, <3>2 DEF Active
    <3> QED
      BY <3>4, <3>5, LogSame
  <2>10. CASE Observing(a)
    BY <1>2, <2>10, TurnSettles DEF Talk!Next
  <2>11. CASE Reminds(a)
    <3>1. pc[a] = "remind" /\ pc'[a] = "loop"
      BY <2>0, <2>11 DEF Reminds, Goes
    <3>2. CASE UNCHANGED history
      BY <2>3, <3>1, <3>2
    <3>3. CASE Speaks(a, "reminder", 0)
      <4>1. Talk!Says(a, <<Talk!Note(a, "reminder", 0)>>)
        BY <2>2, <3>1, <3>3 DEF Kinds, Active
      <4>2. Settled(c) = Notes(history[c]) /\ LastIs(history[c], a, {"obs"})
        BY <2>0, <2>1, <3>1 DEF Active, Tells
      <4>3. Talk!After(a, {"obs"})
        BY <1>2, <2>0, <4>2, LogAfter
      <4> QED
        BY <1>2, <4>1, <4>3 DEF Talk!Next, Talk!Reminder
    <3> QED
      BY <2>11, <3>2, <3>3 DEF Reminds
  <2>12. CASE Stays
    <3>1. Settled(c)' = Settled(c)
      BY <2>0, <2>12, SettledSame DEF Stays
    <3> QED
      BY <3>1, LogSame
  <2> QED
    BY <2>4, <2>5, <2>6, <2>7, <2>8, <2>9, <2>10, <2>11, <2>12, Moves
<1> QED
  BY <1>1, <1>2 DEF All

(* As long as the prompts of a chat wait for each other, however tools and *)
(* sub-agents interleave, the chat grows by whole turns: AgentLoop         *)
(* implements Dialogue.                                                    *)
THEOREM DialogueHolds == ASSUME Serial PROVE Spec => DialogueSpec
<1>1. Init => Talk!Init
  <2> SUFFICES ASSUME Init PROVE Talk!Init
    OBVIOUS
  <2>1. \A c \in Sessions : Settled(c) = <<>>
    <3> SUFFICES ASSUME NEW c \in Sessions PROVE Settled(c) = <<>>
      OBVIOUS
    <3>1. NoneAtTools(c) /\ history[c] = <<>>
      BY DEF Init, NoneAtTools
    <3>2. Settled(c) = Notes(<<>>)
      BY <3>1, TypeInit, SettledAll DEF TypeInv
    <3>3. <<>> \in Seq(Message) /\ Len(<<>>) = 0
      OBVIOUS
    <3>4. Len(Notes(<<>>)) = 0 /\ Notes(<<>>) \in Seq(NoteSet)
      BY <3>3, NotesType
    <3> HIDE DEF Notes
    <3>5. Notes(<<>>) = <<>>
      BY <3>4, EmptySeq
    <3> QED
      BY <3>2, <3>5
  <2> QED
    BY <2>1 DEF Talk!Init
<1>2. TypeInv /\ SoleInv /\ HistoryInv /\ [Next]_vars
        => [Talk!Next]_[s \in Sessions |-> Settled(s)]
  <2> SUFFICES ASSUME TypeInv, SoleInv, HistoryInv, [Next]_vars
               PROVE  Talk!Next \/ UNCHANGED Log
    BY DEF Log
  <2>1. CASE UNCHANGED vars
    <3>1. \A c \in Sessions : Settled(c)' = Settled(c)
      BY <2>1, SettledSame DEF vars
    <3> QED
      BY <3>1 DEF Log
  <2>2. CASE Next
    BY <2>2, Actors, DialogueStep
  <2> QED
    BY <2>1, <2>2
<1> QED
  BY <1>1, <1>2, HistoryInvariance, TypeInvariance, PTL DEF Spec, DialogueSpec, Talk!Spec

=============================================================================
