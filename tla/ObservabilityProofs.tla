------------------------ MODULE ObservabilityProofs -------------------------
(***************************************************************************)
(* Proofs about the billing in Observability, for any number of runs, tool *)
(* calls, chats and prices.                                                *)
(***************************************************************************)
EXTENDS Observability, SequenceTheorems, TLAPS

Places ==
  {"idle", "loop", "asking", "bill", "add", "log", "answered", "called", "tools",
   "links tool", "executes", "delegates", "links whole", "over", "done"}

(* The types of what billing reads and writes.                             *)
BillTypes ==
  /\ sessions \in [Chats -> Nat]
  /\ total \in Seq(Nat)
  /\ lock \in Seq(Agents \cup {Nobody})
  /\ Len(lock) = Len(total)
  /\ session \in [Agents -> Nat]
  /\ pc \in [Agents -> Places]
  /\ usage \in [Agents -> Nat]
  /\ loaded \in [Agents -> Nat]
  /\ logged \in [Agents -> Nat]
  /\ own \in [Agents -> Nat]
  /\ charged \in [Chats -> Nat]

(* Each chat has a session of its own.                                     *)
SessionsDiffer ==
  /\ \A c \in Chats : sessions[c] <= Len(total)
  /\ \A c, d \in Chats : sessions[c] = sessions[d] /\ sessions[c] # 0 => c = d

(* An agent at work bills to the session of its chat.                      *)
RightSession ==
  \A a \in Agents :
    pc[a] # "idle" => session[a] = sessions[Chat[a]] /\ session[a] # 0

(* Between load and store an agent has the lock, so what it loaded is      *)
(* still the total.                                                        *)
LockHeld ==
  \A a \in Agents :
    pc[a] = "add" => lock[session[a]] = a /\ loaded[a] = total[session[a]]

(* What an agent was billed is part of what its chat was.                  *)
OwnIsCharged == \A a \in Agents : own[a] <= charged[Chat[a]]

BillInv ==
  /\ BillTypes /\ SessionsDiffer /\ RightSession /\ LockHeld
  /\ BillExact /\ OwnIsCharged /\ LoggedTotalCovers

LEMMA ChatType == \A a \in Agents : Chat[a] \in Chats
BY ObservabilityAssumption

(* A session number in use is an index of the totals and of the locks.     *)
LEMMA InRange ==
  ASSUME BillTypes, SessionsDiffer, RightSession, NEW a \in Agents, pc[a] # "idle"
  PROVE  /\ session[a] \in 1..Len(total) /\ session[a] \in 1..Len(lock)
         /\ session[a] = sessions[Chat[a]]
         /\ total[session[a]] \in Nat
<1>1. Len(total) \in Nat
  BY DEF BillTypes
<1>2. session[a] \in 1..Len(total)
  <2>1. session[a] \in Nat /\ session[a] # 0 /\ session[a] = sessions[Chat[a]]
    BY DEF BillTypes, RightSession
  <2>2. sessions[Chat[a]] <= Len(total)
    BY ChatType DEF SessionsDiffer
  <2> QED
    BY <1>1, <2>1, <2>2
<1>3. total[session[a]] \in Nat
  BY <1>2, ElementOfSeq DEF BillTypes
<1> QED
  BY <1>2, <1>3 DEF BillTypes, RightSession

LEMMA BillInit == Init => BillInv
<1> SUFFICES ASSUME Init PROVE BillInv
  OBVIOUS
<1> USE DEF Init
<1>1. BillTypes
  <2>1. /\ total \in Seq(Nat) /\ lock \in Seq(Agents \cup {Nobody})
        /\ Len(lock) = Len(total)
    BY EmptySeq
  <2>2. /\ sessions \in [Chats -> Nat] /\ charged \in [Chats -> Nat]
        /\ session \in [Agents -> Nat] /\ usage \in [Agents -> Nat]
        /\ loaded \in [Agents -> Nat] /\ logged \in [Agents -> Nat]
        /\ own \in [Agents -> Nat] /\ pc \in [Agents -> Places]
    BY DEF Places
  <2> QED
    BY <2>1, <2>2 DEF BillTypes
<1>2. SessionsDiffer
  BY EmptySeq DEF SessionsDiffer
<1>3. RightSession /\ LockHeld
  BY DEF RightSession, LockHeld
<1>4. BillExact /\ OwnIsCharged /\ LoggedTotalCovers
  BY ChatType DEF BillExact, OwnIsCharged, LoggedTotalCovers
<1> QED
  BY <1>1, <1>2, <1>3, <1>4 DEF BillInv

(* Steps that bill nothing and take the agent neither to nor out of a      *)
(* place that the invariant speaks of.                                     *)
LEMMA Quiet ==
  ASSUME BillInv, UNCHANGED billVars, NEW a \in Agents, NEW to \in Places,
         pc[a] # "idle", to \notin {"idle", "add", "answered"}, Goes(a, to)
  PROVE  BillInv'
<1> USE DEF billVars, Goes, BillInv
<1>1. BillTypes' /\ SessionsDiffer'
  BY DEF BillTypes, SessionsDiffer
<1>2. \A b \in Agents : pc'[b] = IF b = a THEN to ELSE pc[b]
  BY DEF BillTypes
<1>3. RightSession'
  BY <1>2 DEF RightSession
<1>4. LockHeld'
  BY <1>2 DEF LockHeld
<1>5. BillExact' /\ OwnIsCharged'
  BY DEF BillExact, OwnIsCharged
<1>6. LoggedTotalCovers'
  BY <1>2 DEF LoggedTotalCovers
<1> QED
  BY <1>1, <1>3, <1>4, <1>5, <1>6

LEMMA StartKeeps ==
  ASSUME BillInv, NEW r \in Runs, StartRun(r)
  PROVE  BillInv'
<1> USE DEF BillInv
<1>1. r \in Agents /\ Chat[r] \in Chats /\ Len(total) \in Nat
  BY ChatType DEF Agents, BillTypes
<1>2. /\ pc' = [pc EXCEPT ![r] = "loop"]
      /\ session' = [session EXCEPT ![r] = sessions'[Chat[r]]]
      /\ UNCHANGED <<usage, loaded, logged, charged, own>>
  BY DEF StartRun, GetOrCreate, Goes
<1>3. pc' \in [Agents -> Places]
  BY <1>1, <1>2 DEF BillTypes, Places
<1>4. ASSUME sessions' \in [Chats -> Nat] PROVE session' \in [Agents -> Nat]
  BY <1>1, <1>2, <1>4 DEF BillTypes
<1>5. CASE sessions[Chat[r]] # 0 /\ UNCHANGED <<sessions, total, lock>>
  <2>1. BillTypes' /\ SessionsDiffer'
    BY <1>2, <1>5, <1>3, <1>4 DEF BillTypes, SessionsDiffer
  <2>2. RightSession'
    BY <1>1, <1>2, <1>5 DEF BillTypes, RightSession
  <2>3. LockHeld'
    BY <1>1, <1>2, <1>5 DEF BillTypes, LockHeld
  <2>4. BillExact' /\ OwnIsCharged' /\ LoggedTotalCovers'
    BY <1>1, <1>2, <1>5 DEF BillTypes, BillExact, OwnIsCharged, LoggedTotalCovers
  <2> QED
    BY <2>1, <2>2, <2>3, <2>4
<1>6. CASE /\ sessions[Chat[r]] = 0
           /\ total' = Append(total, 0) /\ lock' = Append(lock, Nobody)
           /\ sessions' = [sessions EXCEPT ![Chat[r]] = Len(total')]
  <2>1. /\ total' \in Seq(Nat) /\ Len(total') = Len(total) + 1
        /\ \A i \in 1..Len(total) : total'[i] = total[i]
        /\ total'[Len(total) + 1] = 0
    BY <1>6, AppendProperties DEF BillTypes
  <2>2. /\ lock' \in Seq(Agents \cup {Nobody}) /\ Len(lock') = Len(lock) + 1
        /\ \A i \in 1..Len(lock) : lock'[i] = lock[i]
    BY <1>6, AppendProperties DEF BillTypes
  <2>3. \A c \in Chats :
          sessions'[c] = IF c = Chat[r] THEN Len(total) + 1 ELSE sessions[c]
    BY <1>1, <1>6, <2>1 DEF BillTypes
  <2>4. BillTypes'
    <3>1. sessions' \in [Chats -> Nat]
      BY <1>1, <1>6, <2>1 DEF BillTypes
    <3> QED
      BY <1>2, <1>3, <1>4, <2>1, <2>2, <3>1 DEF BillTypes
  <2>5. SessionsDiffer'
    <3>1. \A c \in Chats : sessions[c] \in Nat /\ sessions[c] <= Len(total)
      BY DEF BillTypes, SessionsDiffer
    <3> QED
      BY <1>1, <2>1, <2>3, <3>1 DEF SessionsDiffer
  <2>6. \A b \in Agents : b # r /\ pc[b] # "idle" =>
          Chat[b] # Chat[r] /\ session'[b] = session[b] /\ sessions'[Chat[b]] = sessions[Chat[b]]
    BY <1>2, <1>6, <2>3, ChatType DEF BillTypes, RightSession
  <2>7. RightSession'
    <3>1. session'[r] = sessions'[Chat[r]] /\ session'[r] # 0
      BY <1>1, <1>2, <2>3 DEF BillTypes
    <3>2. ASSUME NEW b \in Agents, b # r, pc'[b] # "idle"
          PROVE  session'[b] = sessions'[Chat[b]] /\ session'[b] # 0
      BY <1>2, <2>6, <3>2 DEF BillTypes, RightSession
    <3> QED
      BY <3>1, <3>2 DEF RightSession
  <2>8. LockHeld'
    <3> SUFFICES ASSUME NEW b \in Agents, pc'[b] = "add"
                 PROVE  lock'[session'[b]] = b /\ loaded'[b] = total'[session'[b]]
      BY DEF LockHeld
    <3>1. b # r /\ pc[b] = "add"
      BY <1>1, <1>2 DEF BillTypes
    <3>2. session[b] \in 1..Len(total) /\ session[b] \in 1..Len(lock)
      BY <3>1, InRange
    <3> QED
      BY <1>2, <2>1, <2>2, <2>6, <3>1, <3>2 DEF LockHeld
  <2>9. BillExact'
    <3> SUFFICES ASSUME NEW c \in Chats
                 PROVE  charged'[c] = IF sessions'[c] = 0 THEN 0 ELSE total'[sessions'[c]]
      BY DEF BillExact
    <3>1. CASE c = Chat[r]
      BY <1>1, <1>2, <1>6, <2>1, <2>3, <3>1 DEF BillExact
    <3>2. CASE c # Chat[r]
      <4>1. sessions'[c] = sessions[c] /\ sessions[c] \in 0..Len(total)
        BY <1>1, <2>3, <3>2 DEF BillTypes, SessionsDiffer
      <4> QED
        BY <1>1, <1>2, <2>1, <4>1 DEF BillExact
    <3> QED
      BY <3>1, <3>2
  <2>10. OwnIsCharged' /\ LoggedTotalCovers'
    BY <1>1, <1>2 DEF BillTypes, OwnIsCharged, LoggedTotalCovers
  <2> QED
    BY <2>4, <2>5, <2>7, <2>8, <2>9, <2>10
<1> QED
  BY <1>5, <1>6 DEF StartRun, GetOrCreate

(* The model has answered; its answer costs something or nothing.          *)
LEMMA AnswersKeep ==
  ASSUME BillInv, NEW a \in Agents, NEW u \in Usage \cup {0}, ModelAnswers(a, u)
  PROVE  BillInv'
<1> USE DEF BillInv
<1>1. /\ pc[a] = "asking" /\ u \in Nat
      /\ UNCHANGED <<sessions, total, lock, session, loaded, logged, charged, own>>
      /\ pc' \in [Agents -> Places] /\ usage' \in [Agents -> Nat]
      /\ \A b \in Agents :
           /\ b # a => pc'[b] = pc[b] /\ usage'[b] = usage[b]
           /\ b = a => /\ pc'[b] \in {"bill", "answered"}
                       /\ pc'[b] = "answered" => usage'[b] = 0
  <2>1. u \in Nat
    BY ObservabilityAssumption
  <2>2. pc[a] = "asking" /\ pc \in [Agents -> Places] /\ usage \in [Agents -> Nat]
    BY DEF ModelAnswers, BillTypes
  <2>3. /\ UNCHANGED <<sessions, total, lock, session, loaded, logged, charged, own>>
        /\ usage' = [usage EXCEPT ![a] = u]
        /\ pc' = [pc EXCEPT ![a] = IF u = 0 THEN "answered" ELSE "bill"]
    BY DEF ModelAnswers, Goes
  <2>4. usage' \in [Agents -> Nat] /\ pc' \in [Agents -> Places]
    BY <2>1, <2>2, <2>3 DEF Places
  <2> QED
    BY <2>1, <2>2, <2>3, <2>4
<1>2. BillTypes' /\ SessionsDiffer'
  BY <1>1 DEF BillTypes, SessionsDiffer
<1>3. RightSession' /\ LockHeld'
  BY <1>1 DEF RightSession, LockHeld
<1>4. BillExact' /\ OwnIsCharged' /\ LoggedTotalCovers'
  BY <1>1 DEF BillExact, OwnIsCharged, LoggedTotalCovers
<1> QED
  BY <1>2, <1>3, <1>4

LEMMA LoadKeeps ==
  ASSUME BillInv, NEW a \in Agents, LoadTotal(a)
  PROVE  BillInv'
<1> USE DEF BillInv
<1>1. /\ pc[a] = "bill" /\ lock[session[a]] = Nobody
      /\ lock' = [lock EXCEPT ![session[a]] = a]
      /\ loaded' = [loaded EXCEPT ![a] = total[session[a]]]
      /\ UNCHANGED <<sessions, total, session, usage, logged, charged, own>>
      /\ pc' \in [Agents -> Places]
      /\ \A b \in Agents : pc'[b] = IF b = a THEN "add" ELSE pc[b]
  BY DEF LoadTotal, Goes, BillTypes, Places
<1>2. /\ session[a] \in 1..Len(lock) /\ total[session[a]] \in Nat
  BY <1>1, InRange
<1>3. /\ lock' \in Seq(Agents \cup {Nobody}) /\ Len(lock') = Len(lock)
      /\ \A i \in 1..Len(lock) : lock'[i] = IF i = session[a] THEN a ELSE lock[i]
  BY <1>1, <1>2, ExceptSeq DEF BillTypes
<1>4. BillTypes' /\ SessionsDiffer'
  BY <1>1, <1>2, <1>3 DEF BillTypes, SessionsDiffer
<1>5. RightSession'
  BY <1>1 DEF RightSession
<1>6. LockHeld'
  <2>1. lock'[session'[a]] = a /\ loaded'[a] = total'[session'[a]]
    BY <1>1, <1>2, <1>3 DEF BillTypes
  <2>2. ASSUME NEW b \in Agents, b # a, pc'[b] = "add"
        PROVE  lock'[session'[b]] = b /\ loaded'[b] = total'[session'[b]]
    <3>1. pc[b] = "add" /\ lock[session[b]] = b /\ loaded[b] = total[session[b]]
      BY <1>1, <2>2 DEF LockHeld
    <3>2. session[b] \in 1..Len(lock)
      BY <3>1, InRange
    <3>3. session[b] # session[a]
      BY <1>1, <3>1, ObservabilityAssumption
    <3> QED
      BY <1>1, <1>3, <2>2, <3>1, <3>2, <3>3 DEF BillTypes
  <2> QED
    BY <2>1, <2>2 DEF LockHeld
<1>7. BillExact' /\ OwnIsCharged' /\ LoggedTotalCovers'
  BY <1>1 DEF BillExact, OwnIsCharged, LoggedTotalCovers
<1> QED
  BY <1>4, <1>5, <1>6, <1>7

(* The heart of it: what is stored is the total of now and the new cost.   *)
LEMMA StoreKeeps ==
  ASSUME BillInv, NEW a \in Agents, StoreTotal(a)
  PROVE  BillInv'
<1> USE DEF BillInv
<1> DEFINE s == session[a]
<1>1. /\ pc[a] = "add"
      /\ total' = [total EXCEPT ![s] = loaded[a] + usage[a]]
      /\ lock' = [lock EXCEPT ![s] = Nobody]
      /\ UNCHANGED <<sessions, session, usage, loaded, logged>>
      /\ pc' \in [Agents -> Places]
      /\ \A b \in Agents : pc'[b] = IF b = a THEN "log" ELSE pc[b]
  BY DEF StoreTotal, Goes, BillTypes, Places
<1>2. /\ Chat[a] \in Chats /\ usage[a] \in Nat
      /\ s \in 1..Len(total) /\ s \in 1..Len(lock)
      /\ s = sessions[Chat[a]] /\ total[s] \in Nat
      /\ lock[s] = a /\ loaded[a] = total[s]
  BY <1>1, InRange, ChatType DEF BillTypes, LockHeld
<1>3. /\ total' \in Seq(Nat) /\ Len(total') = Len(total)
      /\ \A i \in 1..Len(total) :
           total'[i] = IF i = s THEN total[s] + usage[a] ELSE total[i]
  <2>1. total[s] + usage[a] \in Nat /\ total \in Seq(Nat)
    BY <1>2 DEF BillTypes
  <2> QED
    BY <1>1, <1>2, <2>1, ExceptSeq
<1>4. /\ lock' \in Seq(Agents \cup {Nobody}) /\ Len(lock') = Len(lock)
      /\ \A i \in 1..Len(lock) : i # s => lock'[i] = lock[i]
  BY <1>1, <1>2, ExceptSeq DEF BillTypes
<1>5. /\ charged' \in [Chats -> Nat] /\ own' \in [Agents -> Nat]
      /\ \A c \in Chats :
           charged'[c] = IF c = Chat[a] THEN charged[c] + usage[a] ELSE charged[c]
      /\ \A b \in Agents : own'[b] = IF b = a THEN own[b] + usage[a] ELSE own[b]
  <2>1. /\ charged' = [charged EXCEPT ![Chat[a]] = @ + usage[a]]
        /\ own' = [own EXCEPT ![a] = @ + usage[a]]
    BY DEF StoreTotal
  <2>2. charged \in [Chats -> Nat] /\ own \in [Agents -> Nat] /\ usage[a] \in Nat
    BY DEF BillTypes
  <2>3. /\ charged' \in [Chats -> Nat]
        /\ \A c \in Chats :
             charged'[c] = IF c = Chat[a] THEN charged[c] + usage[a] ELSE charged[c]
    BY <1>2, <2>1, <2>2
  <2>4. /\ own' \in [Agents -> Nat]
        /\ \A b \in Agents : own'[b] = IF b = a THEN own[b] + usage[a] ELSE own[b]
    BY <2>1, <2>2
  <2> QED
    BY <2>3, <2>4
<1>6. BillTypes' /\ SessionsDiffer'
  BY <1>1, <1>3, <1>4, <1>5 DEF BillTypes, SessionsDiffer
<1>7. RightSession'
  BY <1>1 DEF RightSession
<1>8. LockHeld'
  <2> SUFFICES ASSUME NEW b \in Agents, pc'[b] = "add"
               PROVE  lock'[session'[b]] = b /\ loaded'[b] = total'[session'[b]]
    BY DEF LockHeld
  <2>1. b # a /\ pc[b] = "add" /\ lock[session[b]] = b /\ loaded[b] = total[session[b]]
    BY <1>1 DEF LockHeld
  <2>2. session[b] \in 1..Len(lock) /\ session[b] \in 1..Len(total)
    BY <2>1, InRange
  <2>3. session[b] # s
    BY <1>2, <2>1
  <2> QED
    BY <1>1, <1>3, <1>4, <2>1, <2>2, <2>3
<1>9. BillExact'
  <2> SUFFICES ASSUME NEW c \in Chats
               PROVE  charged'[c] = IF sessions'[c] = 0 THEN 0 ELSE total'[sessions'[c]]
    BY DEF BillExact
  <2>1. CASE c = Chat[a]
    BY <1>1, <1>2, <1>3, <1>5, <2>1 DEF BillExact
  <2>2. CASE c # Chat[a]
    <3>1. sessions[c] \in 0..Len(total) /\ sessions[c] # s
      <4>1. sessions[c] \in Nat /\ Len(total) \in Nat /\ sessions[c] <= Len(total)
        BY DEF BillTypes, SessionsDiffer
      <4>2. sessions[c] # sessions[Chat[a]]
        BY <1>2, <2>2 DEF SessionsDiffer
      <4> QED
        BY <1>2, <4>1, <4>2
    <3> QED
      BY <1>1, <1>3, <1>5, <2>2, <3>1 DEF BillExact
  <2> QED
    BY <2>1, <2>2
<1>10. OwnIsCharged' /\ LoggedTotalCovers'
  <2>1. \A b \in Agents :
          /\ Chat[b] \in Chats /\ own[b] \in Nat /\ charged[Chat[b]] \in Nat
          /\ logged[b] \in Nat
    BY ChatType DEF BillTypes
  <2>2. ASSUME NEW b \in Agents
        PROVE  /\ own'[b] <= charged'[Chat[b]]
               /\ logged'[b] <= charged'[Chat[b]]
               /\ pc'[b] = "answered" /\ usage'[b] # 0 => own'[b] <= logged'[b]
    <3>1. /\ own[b] <= charged[Chat[b]] /\ logged[b] <= charged[Chat[b]]
          /\ pc[b] = "answered" /\ usage[b] # 0 => own[b] <= logged[b]
      BY DEF OwnIsCharged, LoggedTotalCovers
    <3>2. CASE b = a
      <4>1. /\ own'[b] = own[b] + usage[a] /\ charged'[Chat[b]] = charged[Chat[b]] + usage[a]
            /\ logged'[b] = logged[b] /\ pc'[b] = "log"
        BY <1>1, <1>2, <1>5, <3>2
      <4> QED
        BY <1>2, <2>1, <3>1, <4>1
    <3>3. CASE b # a
      <4>1. /\ own'[b] = own[b] /\ logged'[b] = logged[b]
            /\ pc'[b] = pc[b] /\ usage'[b] = usage[b]
        BY <1>1, <1>5, <3>3
      <4>2. charged'[Chat[b]] \in {charged[Chat[b]], charged[Chat[b]] + usage[a]}
        BY <1>5, <2>1
      <4> QED
        BY <1>2, <2>1, <3>1, <4>1, <4>2
    <3> QED
      BY <3>2, <3>3
  <2> QED
    BY <2>2 DEF OwnIsCharged, LoggedTotalCovers
<1> QED
  BY <1>6, <1>7, <1>8, <1>9, <1>10

LEMMA LogKeeps ==
  ASSUME BillInv, NEW a \in Agents, LogTotal(a)
  PROVE  BillInv'
<1> USE DEF BillInv
<1>1. /\ pc[a] = "log"
      /\ logged' = [logged EXCEPT ![a] = total[session[a]]]
      /\ UNCHANGED <<sessions, total, lock, session, usage, loaded, charged, own>>
      /\ pc' \in [Agents -> Places]
      /\ \A b \in Agents : pc'[b] = IF b = a THEN "answered" ELSE pc[b]
  BY DEF LogTotal, Goes, BillTypes, Places
<1>2. /\ total[session[a]] \in Nat
      /\ total[session[a]] = charged[Chat[a]]
  <2>1. /\ total[session[a]] \in Nat /\ session[a] = sessions[Chat[a]]
        /\ session[a] # 0 /\ Chat[a] \in Chats
    BY <1>1, InRange, ChatType DEF RightSession
  <2> QED
    BY <2>1 DEF BillExact
<1>3. BillTypes' /\ SessionsDiffer'
  BY <1>1, <1>2 DEF BillTypes, SessionsDiffer
<1>4. RightSession' /\ LockHeld'
  BY <1>1 DEF RightSession, LockHeld
<1>5. BillExact' /\ OwnIsCharged'
  BY <1>1 DEF BillExact, OwnIsCharged
<1>6. LoggedTotalCovers'
  <2>1. \A b \in Agents : logged'[b] = IF b = a THEN charged[Chat[a]] ELSE logged[b]
    BY <1>1, <1>2 DEF BillTypes
  <2>2. charged[Chat[a]] <= charged[Chat[a]] /\ own[a] <= charged[Chat[a]]
    BY <1>2 DEF OwnIsCharged
  <2> QED
    BY <1>1, <2>1, <2>2 DEF LoggedTotalCovers
<1> QED
  BY <1>3, <1>4, <1>5, <1>6

(* A tool call inherits the session of the agent that made it.             *)
LEMMA CallKeeps ==
  ASSUME BillInv, NEW a \in Agents, NEW calls \in SUBSET Tools, CallTools(a, calls)
  PROVE  BillInv'
<1> USE DEF BillInv
<1>1. /\ pc[a] = "answered" /\ session[a] = sessions[Chat[a]] /\ session[a] # 0
      /\ session[a] \in Nat
      /\ \A t \in calls : Of[t] = a /\ Chat[t] = Chat[a] /\ pc[t] = "idle"
      /\ UNCHANGED <<sessions, total, lock, usage, loaded, logged, charged, own>>
  BY ObservabilityAssumption DEF CallTools, RightSession, BillTypes
<1>2. /\ session' = [t \in Agents |-> IF t \in calls THEN session[a] ELSE session[t]]
      /\ pc' = [t \in Agents |-> IF t \in calls THEN "called"
                                 ELSE IF t = a THEN "tools" ELSE pc[t]]
  BY DEF CallTools
<1>3. pc' \in [Agents -> Places] /\ session' \in [Agents -> Nat]
  BY <1>1, <1>2 DEF BillTypes, Places
<1>4. BillTypes' /\ SessionsDiffer'
  BY <1>1, <1>3 DEF BillTypes, SessionsDiffer
<1>5. RightSession'
  BY <1>1, <1>2 DEF RightSession
<1>6. LockHeld'
  BY <1>1, <1>2 DEF LockHeld
<1>7. BillExact' /\ OwnIsCharged'
  BY <1>1 DEF BillExact, OwnIsCharged
<1>8. LoggedTotalCovers'
  BY <1>1, <1>2 DEF LoggedTotalCovers
<1> QED
  BY <1>4, <1>5, <1>6, <1>7, <1>8

LEMMA BillNext == BillInv /\ [Next]_vars => BillInv'
<1> SUFFICES ASSUME BillInv, [Next]_vars PROVE BillInv'
  OBVIOUS
<1>1. ASSUME NEW r \in Runs, StartRun(r) PROVE BillInv'
  BY <1>1, StartKeeps
<1>2. ASSUME NEW a \in Agents, AskModel(a) \/ Answer(a) \/ EndTurn(a) \/ Finish(a) \/ ModelFails(a)
      PROVE  BillInv'
  <2>1. PICK to \in {"asking", "over", "loop", "done"} : Goes(a, to)
    BY <1>2 DEF AskModel, Answer, EndTurn, Finish, ModelFails
  <2>2. UNCHANGED billVars /\ pc[a] # "idle"
    BY <1>2 DEF AskModel, Answer, EndTurn, Finish, ModelFails
  <2> QED
    BY <2>1, <2>2, Quiet DEF Places
<1>3. ASSUME NEW a \in Agents, NEW u \in Usage \cup {0}, ModelAnswers(a, u) PROVE BillInv'
  BY <1>3, AnswersKeep
<1>4. ASSUME NEW a \in Agents, LoadTotal(a) PROVE BillInv'
  BY <1>4, LoadKeeps
<1>5. ASSUME NEW a \in Agents, StoreTotal(a) PROVE BillInv'
  BY <1>5, StoreKeeps
<1>6. ASSUME NEW a \in Agents, LogTotal(a) PROVE BillInv'
  BY <1>6, LogKeeps
<1>7. ASSUME NEW a \in Agents, NEW calls \in SUBSET Tools, CallTools(a, calls) PROVE BillInv'
  BY <1>7, CallKeeps
<1>8. ASSUME NEW t \in Tools,
             LoadChildren(t) \/ LinkTool(t) \/ LinkWhole(t) \/ Delegate(t) \/ ToolEnds(t) \/ Recall(t)
      PROVE  BillInv'
  <2>1. PICK to \in {"links tool", "links whole", "executes", "loop", "delegates", "done", "over"} :
          Goes(t, to)
    BY <1>8 DEF LoadChildren, LinkTool, LinkWhole, Delegate, ToolEnds, Recall
  <2>2. UNCHANGED billVars /\ pc[t] # "idle" /\ t \in Agents
    BY <1>8 DEF LoadChildren, LinkTool, LinkWhole, Delegate, ToolEnds, Recall, StoreChildren, Agents
  <2> QED
    BY <2>1, <2>2, Quiet DEF Places
<1>9. CASE UNCHANGED vars
  BY <1>9 DEF vars, billVars, BillInv, BillTypes, SessionsDiffer, RightSession, LockHeld,
              BillExact, OwnIsCharged, LoggedTotalCovers
<1> QED
  BY <1>1, <1>2, <1>3, <1>4, <1>5, <1>6, <1>7, <1>8, <1>9 DEF Next

LEMMA BillAlways == Spec => []BillInv
BY BillInit, BillNext, PTL DEF Spec

(* However the calls of a chat's runs and sub-agents overlap, its total is *)
(* what they cost: RecordUsage loses none and counts none twice.           *)
THEOREM NoBillLost == Spec => []BillExact
<1>1. BillInv => BillExact
  BY DEF BillInv
<1> QED
  BY <1>1, BillAlways, PTL

(* The total that the tracker logs without the lock is never below what    *)
(* the agent's own calls cost and never above what was billed.             *)
THEOREM LogCovers == Spec => []LoggedTotalCovers
<1>1. BillInv => LoggedTotalCovers
  BY DEF BillInv
<1> QED
  BY <1>1, BillAlways, PTL

-----------------------------------------------------------------------------
(* The trace.                                                              *)
Before == {"idle", "called", "links tool", "executes", "delegates", "links whole"}

Busy == {"asking", "bill", "add", "log", "answered"}

TraceTypes ==
  /\ pc \in [Agents -> Places]
  /\ turn \in [Agents -> Nat]
  /\ mu \in [Agents -> Agents \cup {Nobody}]
  /\ seen = [t \in Tools |-> seen[t]]
  /\ children = [s \in DOMAIN children |-> children[s]]
  /\ calledIn = [t \in Tools |-> calledIn[t]]

(* Spans of turns are numbered, a run or a sub-agent that has not begun    *)
(* has none, and neither has a tool call before its first.                 *)
SpansNumbered ==
  /\ \A s \in DOMAIN children :
       \E a \in Agents :
         \/ s = Whole(a) /\ pc[a] \notin Before
         \/ a \in Tools /\ s = Tool(a) /\ pc[a] \notin {"idle", "called", "links tool"}
         \/ \E n \in 1..turn[a] : s = <<a, "turn", n>> \/ s = <<a, "model", n>>
  /\ \A a \in Agents : pc[a] \in Before => turn[a] = 0

(* The spans new ones are linked to are there.                             *)
ParentsThere ==
  \A a \in Agents :
    /\ pc[a] \in Busy \cup {"loop", "tools"} => Whole(a) \in DOMAIN children
    /\ pc[a] \in Busy \cup {"tools"} => Turn(a) \in DOMAIN children

(* A tool call works within a turn at its tools.                           *)
CallsNested == \A t \in Tools : pc[t] \notin {"idle", "done"} => pc[Of[t]] = "tools"

(* Between load and store a tool call has the lock of its turn, and what   *)
(* it loaded is still the list.                                            *)
ChildrenHeld ==
  \A t \in Tools :
    pc[t] \in {"links tool", "links whole"} =>
      mu[Of[t]] = t /\ seen[t] = children[Turn(Of[t])]

(* Which spans may not have ended.                                         *)
Open(s) ==
  \E a \in Agents :
    \/ s = Whole(a) /\ pc[a] # "done"
    \/ a \in Tools /\ s = Tool(a) /\ pc[a] # "done"
    \/ s = Turn(a) /\ pc[a] \in Busy \cup {"tools"}
    \/ s = Thought(a) /\ pc[a] \in Busy

OthersEnded == \A s \in DOMAIN children : s \in ended \/ Open(s)

(* A turn, a call of the model and a tool call have a span each.           *)
SpansThere ==
  /\ \A a \in Agents : \A n \in 1..turn[a] :
       <<a, "turn", n>> \in DOMAIN children /\ <<a, "model", n>> \in DOMAIN children
  /\ \A t \in Tools : pc[t] \notin {"idle", "called", "links tool"} => Tool(t) \in DOMAIN children

(* While a tool call works, the turn that called it goes on.               *)
CalledNow == \A t \in Tools : pc[t] \notin {"idle", "done"} => calledIn[t] = turn[Of[t]]

Rooted(s) == \E r \in Runs : s = Whole(r)

(* A tree in which each span but those of runs is under its parent alone.  *)
LinkedIn(tree) ==
  /\ \A p \in DOMAIN tree : tree[p] \subseteq DOMAIN tree
  /\ \A s \in DOMAIN tree : ~Rooted(s) => Parent(s) \in DOMAIN tree
  /\ \A p, s \in DOMAIN tree : s \in tree[p] <=> ~Rooted(s) /\ p = Parent(s)

Linked == LinkedIn(children)

TraceInv ==
  /\ TraceTypes /\ SpansNumbered /\ ParentsThere /\ CallsNested
  /\ ChildrenHeld /\ OthersEnded /\ SpansThere /\ CalledNow /\ Linked

(* Spans differ by what they are spans of.                                 *)
LEMMA SpansDiffer ==
  ASSUME NEW a, NEW b, NEW m, NEW n
  PROVE  /\ Whole(a) = Whole(b) => a = b
         /\ Tool(a) = Tool(b) => a = b
         /\ <<a, "turn", m>> = <<b, "turn", n>> => a = b /\ m = n
         /\ <<a, "model", m>> = <<b, "model", n>> => a = b /\ m = n
         /\ Whole(a) # Tool(b) /\ Whole(a) # <<b, "turn", n>> /\ Whole(a) # <<b, "model", n>>
         /\ Tool(a) # <<b, "turn", n>> /\ Tool(a) # <<b, "model", n>>
         /\ <<a, "turn", m>> # <<b, "model", n>>
  BY DEF Whole, Tool

(* new is the tree with s under its parent.                                *)
IsGrown(new, tree, parent, s) ==
  /\ new = [x \in DOMAIN new |-> new[x]]
  /\ DOMAIN new = DOMAIN tree \cup {s}
  /\ \A x \in DOMAIN tree : new[x] = IF x = parent THEN tree[x] \cup {s} ELSE tree[x]
  /\ new[s] = {}

LEMMA GrownIs ==
  ASSUME NEW tree, NEW parent, NEW s, s \notin DOMAIN tree
  PROVE  IsGrown(Grown(tree, parent, s), tree, parent, s)
  BY DEF Grown, IsGrown

(* A span that hangs nowhere yet may be linked to its parent, or be a root.*)
LEMMA GrowLinks ==
  ASSUME NEW tree, NEW new, NEW p \in DOMAIN tree, NEW s, s \notin DOMAIN tree,
         LinkedIn(tree), IsGrown(new, tree, p, s), ~Rooted(s), p = Parent(s)
  PROVE  LinkedIn(new)
<1>1. ASSUME NEW q \in DOMAIN new, NEW x \in DOMAIN new
      PROVE  x \in new[q] <=> ~Rooted(x) /\ q = Parent(x)
  <2>1. CASE q = s
    BY <2>1, <1>1 DEF IsGrown, LinkedIn
  <2>2. CASE q # s /\ x = s
    BY <2>2, <1>1 DEF IsGrown, LinkedIn
  <2>3. CASE q # s /\ x # s
    BY <2>3, <1>1 DEF IsGrown, LinkedIn
  <2> QED
    BY <2>1, <2>2, <2>3
<1>2. ASSUME NEW q \in DOMAIN new PROVE new[q] \subseteq DOMAIN new
  BY <1>2 DEF IsGrown, LinkedIn
<1>3. ASSUME NEW x \in DOMAIN new, ~Rooted(x) PROVE Parent(x) \in DOMAIN new
  BY <1>3 DEF IsGrown, LinkedIn
<1> QED
  BY <1>1, <1>2, <1>3 DEF LinkedIn

LEMMA GrowRoot ==
  ASSUME NEW tree, NEW new, NEW s, s \notin DOMAIN tree,
         LinkedIn(tree), IsGrown(new, tree, s, s), Rooted(s)
  PROVE  LinkedIn(new)
<1>1. \A x \in DOMAIN tree : new[x] = tree[x]
  BY DEF IsGrown
<1>2. ASSUME NEW q \in DOMAIN new, NEW x \in DOMAIN new
      PROVE  x \in new[q] <=> ~Rooted(x) /\ q = Parent(x)
  BY <1>1, <1>2 DEF IsGrown, LinkedIn
<1> QED
  BY <1>1, <1>2 DEF IsGrown, LinkedIn

LEMMA SameParents ==
  ASSUME calledIn' = calledIn
  PROVE  /\ \A s : Parent(s)' = Parent(s) /\ (Rooted(s)' <=> Rooted(s))
         /\ \A s : Whole(s)' = Whole(s)
  BY DEF Parent, Rooted, Whole

LEMMA LinksKept ==
  ASSUME calledIn' = calledIn, LinkedIn(children')
  PROVE  Linked'
  BY SameParents DEF Linked, LinkedIn

LEMMA TraceInit == Init => TraceInv
<1> SUFFICES ASSUME Init PROVE TraceInv
  OBVIOUS
<1>1. /\ pc = [a \in Agents |-> "idle"] /\ turn = [a \in Agents |-> 0]
      /\ DOMAIN children = {} /\ children = [s \in {} |-> {}]
      /\ mu = [a \in Agents |-> Nobody] /\ seen = [t \in Tools |-> {}]
      /\ calledIn = [t \in Tools |-> 0]
  BY DEF Init
<1>2. TraceTypes
  BY <1>1 DEF TraceTypes, Places
<1>3. \A t \in Tools : t \in Agents /\ pc[t] = "idle"
  BY <1>1 DEF Agents
<1>4. SpansNumbered /\ OthersEnded /\ Linked
  BY <1>1 DEF SpansNumbered, OthersEnded, Linked, LinkedIn
<1>5. ParentsThere
  BY <1>1 DEF ParentsThere, Busy
<1>6. CallsNested /\ ChildrenHeld /\ CalledNow
  BY <1>3 DEF CallsNested, ChildrenHeld, CalledNow
<1>7. SpansThere
  <2>1. ASSUME NEW a \in Agents, NEW n \in 1..turn[a] PROVE FALSE
    BY <1>1
  <2> QED
    BY <1>3, <2>1 DEF SpansThere
<1> QED
  BY <1>2, <1>4, <1>5, <1>6, <1>7 DEF TraceInv

(* A step that adds no span and after which one agent is elsewhere.        *)
LEMMA CloseKeeps ==
  ASSUME TraceInv, NEW a \in Agents, NEW q \in Places, Goes(a, q),
         UNCHANGED <<children, turn, mu, seen, calledIn>>, ended \subseteq ended',
         q \in Before => pc[a] \in Before,
         q \in {"idle", "called", "links tool", "links whole"} => FALSE,
         q \in Busy \cup {"loop", "tools"} => pc[a] \in Busy \cup {"loop", "tools"},
         q \in Busy \cup {"tools"} => pc[a] \in Busy \cup {"tools"},
         pc[a] \in {"idle", "done", "called", "links tool"} => FALSE,
         pc[a] = "tools" => \A t \in Tools : Of[t] = a => pc[t] \in {"idle", "done"},
         \A s \in DOMAIN children :
           /\ q = "done" /\ s \in {Whole(a), Tool(a)} => s \in ended'
           /\ pc[a] \in Busy \cup {"tools"} /\ q \notin Busy \cup {"tools"} /\ s = Turn(a)
                => s \in ended'
           /\ pc[a] \in Busy /\ q \notin Busy /\ s = Thought(a) => s \in ended'
  PROVE  TraceInv'
<1>1. /\ pc' \in [Agents -> Places] /\ pc'[a] = q
      /\ \A b \in Agents : b # a => pc'[b] = pc[b]
  BY DEF TraceInv, TraceTypes, Goes
<1>2. TraceTypes'
  BY <1>1 DEF TraceInv, TraceTypes
<1>3. /\ \A b : Turn(b)' = Turn(b) /\ Thought(b)' = Thought(b)
      /\ \A b : Whole(b)' = Whole(b) /\ Tool(b)' = Tool(b)
  BY DEF Turn, Thought, Whole, Tool
<1> HIDE DEF Goes
<1>4. SpansNumbered'
  <2>1. \A b \in Agents : pc[b] \notin Before => pc'[b] \notin Before
    BY <1>1
  <2>2. \A b \in Agents :
          pc[b] \notin {"idle", "called", "links tool"} => pc'[b] \notin {"idle", "called", "links tool"}
    BY <1>1
  <2>3. \A b \in Agents : pc'[b] \in Before => pc[b] \in Before
    BY <1>1
  <2> QED
    BY <1>3, <2>1, <2>2, <2>3 DEF TraceInv, SpansNumbered
<1>5. ParentsThere'
  <2>1. \A b \in Agents :
          /\ pc'[b] \in Busy \cup {"loop", "tools"} => pc[b] \in Busy \cup {"loop", "tools"}
          /\ pc'[b] \in Busy \cup {"tools"} => pc[b] \in Busy \cup {"tools"}
    BY <1>1
  <2> QED
    BY <1>3, <2>1 DEF TraceInv, ParentsThere
<1>6. CallsNested'
  <2> SUFFICES ASSUME NEW t \in Tools, pc'[t] \notin {"idle", "done"} PROVE pc'[Of[t]] = "tools"
    BY DEF CallsNested
  <2>1. t \in Agents /\ Of[t] \in Agents
    BY ObservabilityAssumption DEF Agents
  <2>2. pc[t] \notin {"idle", "done"}
    BY <1>1, <2>1
  <2>3. pc[Of[t]] = "tools"
    BY <2>2 DEF TraceInv, CallsNested
  <2>4. Of[t] # a
    BY <2>2, <2>3
  <2> QED
    BY <1>1, <2>1, <2>3, <2>4
<1>7. ChildrenHeld'
  <2>1. \A t \in Tools : pc'[t] \in {"links tool", "links whole"} => pc[t] \in {"links tool", "links whole"}
    BY <1>1 DEF Agents
  <2> QED
    BY <1>3, <2>1 DEF TraceInv, ChildrenHeld
<1>8. OthersEnded'
  <2> SUFFICES ASSUME NEW s \in DOMAIN children, s \notin ended' PROVE Open(s)'
    BY DEF OthersEnded
  <2>1. PICK b \in Agents :
          \/ s = Whole(b) /\ pc[b] # "done"
          \/ b \in Tools /\ s = Tool(b) /\ pc[b] # "done"
          \/ s = Turn(b) /\ pc[b] \in Busy \cup {"tools"}
          \/ s = Thought(b) /\ pc[b] \in Busy
    BY DEF TraceInv, OthersEnded, Open
  <2>2. \/ s = Whole(b) /\ pc'[b] # "done"
        \/ b \in Tools /\ s = Tool(b) /\ pc'[b] # "done"
        \/ s = Turn(b) /\ pc'[b] \in Busy \cup {"tools"}
        \/ s = Thought(b) /\ pc'[b] \in Busy
    BY <1>1, <2>1
  <2> QED
    BY <1>3, <2>2 DEF Open
<1>9. Linked'
  BY LinksKept DEF TraceInv, Linked
<1>10. SpansThere'
  <2>1. \A t \in Tools : pc'[t] \notin {"idle", "called", "links tool"} =>
          pc[t] \notin {"idle", "called", "links tool"}
    BY <1>1 DEF Agents
  <2> QED
    BY <1>3, <2>1 DEF TraceInv, SpansThere
<1>11. CalledNow'
  <2>1. \A t \in Tools : pc'[t] \notin {"idle", "done"} => pc[t] \notin {"idle", "done"}
    BY <1>1 DEF Agents
  <2> QED
    BY <2>1 DEF TraceInv, CalledNow
<1> QED
  BY <1>2, <1>4, <1>5, <1>6, <1>7, <1>8, <1>9, <1>10, <1>11 DEF TraceInv

(* What the calls of other agents load and hold.                           *)
LEMMA CallsTypes ==
  /\ \A t \in Tools : t \in Agents /\ t \notin Runs /\ Of[t] \in Agents /\ Of[t] # t
  /\ \A r \in Runs : r \in Agents
  /\ Nobody \notin Agents
  BY ObservabilityAssumption DEF Agents

LEMMA StartTraces == ASSUME TraceInv, NEW r \in Runs, StartRun(r) PROVE TraceInv'
<1> DEFINE s == Whole(r)
<1>1. /\ pc[r] = "idle" /\ r \in Agents
      /\ children' = Grown(children, s, s)
      /\ UNCHANGED <<turn, mu, seen, ended, calledIn>>
      /\ pc' \in [Agents -> Places] /\ pc'[r] = "loop"
      /\ \A b \in Agents : b # r => pc'[b] = pc[b]
  BY CallsTypes DEF StartRun, Goes, TraceInv, TraceTypes, Places
<1>2. s \notin DOMAIN children
  <2>1. \A a \in Agents : s = Whole(a) => a = r
    BY SpansDiffer
  <2>2. \A a \in Agents : s # Tool(a) /\ \A n : s # <<a, "turn", n>> /\ s # <<a, "model", n>>
    BY SpansDiffer
  <2> HIDE DEF s
  <2> QED
    BY <1>1, <2>1, <2>2 DEF TraceInv, SpansNumbered, Before
<1>3. /\ children' = [x \in DOMAIN children' |-> children'[x]]
      /\ DOMAIN children' = DOMAIN children \cup {s}
      /\ \A x \in DOMAIN children : children'[x] = children[x]
  <2>1. IsGrown(children', children, s, s)
    BY <1>1, <1>2, GrownIs
  <2> HIDE DEF s
  <2> QED
    BY <1>2, <2>1 DEF IsGrown
<1>4. /\ \A b : Turn(b)' = Turn(b) /\ Thought(b)' = Thought(b)
      /\ \A b : Whole(b)' = Whole(b) /\ Tool(b)' = Tool(b)
  BY <1>1 DEF Turn, Thought, Whole, Tool
<1>5. TraceTypes'
  BY <1>1, <1>3 DEF TraceInv, TraceTypes
<1>6. SpansNumbered'
  <2>1. \A b \in Agents : pc[b] \notin Before => pc'[b] \notin Before
    BY <1>1 DEF Before
  <2>2. \A b \in Agents :
          pc[b] \notin {"idle", "called", "links tool"} => pc'[b] \notin {"idle", "called", "links tool"}
    BY <1>1
  <2>3. \A b \in Agents : pc'[b] \in Before => pc[b] \in Before
    BY <1>1 DEF Before
  <2>4. s = Whole(r) /\ pc'[r] \notin Before
    BY <1>1 DEF Before
  <2> HIDE DEF s
  <2> QED
    BY <1>1, <1>3, <1>4, <2>1, <2>2, <2>3, <2>4 DEF TraceInv, SpansNumbered
<1>7. ParentsThere'
  <2>1. \A b \in Agents : b # r => pc'[b] = pc[b]
    BY <1>1
  <2>2. pc'[r] \notin Busy \cup {"tools"} /\ Whole(r) \in DOMAIN children'
    BY <1>1, <1>3 DEF Busy
  <2> QED
    BY <1>3, <1>4, <2>1, <2>2 DEF TraceInv, ParentsThere
<1>8. CallsNested'
  <2>1. \A t \in Tools : pc'[t] = pc[t] /\ (pc[Of[t]] = "tools" => pc'[Of[t]] = "tools")
    BY <1>1, CallsTypes
  <2> QED
    BY <2>1 DEF TraceInv, CallsNested
<1>9. ChildrenHeld'
  <2> SUFFICES ASSUME NEW t \in Tools, pc'[t] \in {"links tool", "links whole"}
               PROVE  mu'[Of[t]] = t /\ seen'[t] = children'[Turn(Of[t])']
    BY DEF ChildrenHeld
  <2>1. pc[t] \in {"links tool", "links whole"}
    BY <1>1, CallsTypes
  <2>2. mu[Of[t]] = t /\ seen[t] = children[Turn(Of[t])] /\ pc[Of[t]] = "tools"
    BY <2>1 DEF TraceInv, ChildrenHeld, CallsNested
  <2>3. Turn(Of[t]) \in DOMAIN children
    BY <2>2, CallsTypes DEF TraceInv, ParentsThere
  <2> QED
    BY <1>1, <1>3, <1>4, <2>2, <2>3
<1>10. OthersEnded'
  <2>1. \A x \in DOMAIN children : Open(x) => Open(x)'
    <3>1. \A b \in Agents :
            /\ pc[b] # "done" => pc'[b] # "done"
            /\ pc[b] \in Busy \cup {"tools"} => pc'[b] \in Busy \cup {"tools"}
            /\ pc[b] \in Busy => pc'[b] \in Busy
      BY <1>1 DEF Busy
    <3> QED
      BY <1>4, <3>1 DEF Open
  <2>2. Open(s)'
    BY <1>1, <1>4 DEF Open
  <2> HIDE DEF s
  <2> QED
    BY <1>1, <1>3, <2>1, <2>2 DEF TraceInv, OthersEnded
<1>11. Linked'
  <2>1. IsGrown(children', children, s, s)
    BY <1>1, <1>2, GrownIs
  <2>2. Rooted(s)
    BY DEF Rooted
  <2> HIDE DEF s
  <2> QED
    BY <1>1, <1>2, <2>1, <2>2, GrowRoot, LinksKept DEF TraceInv, Linked
<1>12. SpansThere'
  <2>1. \A u \in Tools : pc'[u] = pc[u]
    BY <1>1, CallsTypes
  <2> HIDE DEF s
  <2> QED
    BY <1>1, <1>3, <1>4, <2>1 DEF TraceInv, SpansThere
<1>13. CalledNow'
  <2>1. \A u \in Tools : pc'[u] = pc[u]
    BY <1>1, CallsTypes
  <2> QED
    BY <1>1, <2>1 DEF TraceInv, CalledNow
<1> QED
  BY <1>5, <1>6, <1>7, <1>8, <1>9, <1>10, <1>11, <1>12, <1>13 DEF TraceInv

LEMMA AskTraces == ASSUME TraceInv, NEW a \in Agents, AskModel(a) PROVE TraceInv'
<1> DEFINE n == turn[a] + 1
           w == Whole(a)
           t0 == <<a, "turn", n>>
           m0 == <<a, "model", n>>
           tree == Grown(children, w, t0)
<1>1. /\ pc[a] = "loop" /\ turn[a] \in Nat
      /\ UNCHANGED <<mu, seen, ended, calledIn>>
      /\ pc' \in [Agents -> Places] /\ pc'[a] = "asking"
      /\ \A b \in Agents : b # a => pc'[b] = pc[b]
      /\ turn' \in [Agents -> Nat] /\ turn'[a] = n
      /\ \A b \in Agents : b # a => turn'[b] = turn[b]
  <2>1. /\ pc[a] = "loop" /\ UNCHANGED <<mu, seen, ended, calledIn>>
        /\ pc' = [pc EXCEPT ![a] = "asking"] /\ turn' = [turn EXCEPT ![a] = @ + 1]
    BY DEF AskModel, Goes
  <2>2. pc \in [Agents -> Places] /\ turn \in [Agents -> Nat] /\ "asking" \in Places
    BY DEF TraceInv, TraceTypes, Places
  <2> QED
    BY <2>1, <2>2
<1>2. /\ \A b \in Agents : b # a => Turn(b)' = Turn(b) /\ Thought(b)' = Thought(b)
      /\ Turn(a)' = t0 /\ Thought(a)' = m0
      /\ \A b : Whole(b)' = Whole(b) /\ Tool(b)' = Tool(b)
  BY <1>1 DEF Turn, Thought, Whole, Tool
<1>3. children' = Grown(tree, t0, m0)
  BY <1>2 DEF AskModel
<1>4. /\ \A b \in Agents : \A k \in 1..turn[b] :
           t0 # <<b, "turn", k>> /\ m0 # <<b, "model", k>>
      /\ \A b, k : t0 # <<b, "model", k>> /\ m0 # <<b, "turn", k>>
      /\ \A b : t0 # Whole(b) /\ t0 # Tool(b) /\ m0 # Whole(b) /\ m0 # Tool(b)
      /\ t0 # m0
  <2>1. ASSUME NEW b \in Agents, NEW k \in 1..turn[b]
        PROVE  t0 # <<b, "turn", k>> /\ m0 # <<b, "model", k>>
    <3>1. b = a => k # n
      BY <1>1
    <3> QED
      BY <3>1, SpansDiffer
  <2> QED
    BY <2>1, SpansDiffer
<1>5. t0 \notin DOMAIN children /\ m0 \notin DOMAIN children /\ w \in DOMAIN children
  <2>1. w \in DOMAIN children
    BY <1>1 DEF TraceInv, ParentsThere
  <2> HIDE DEF t0, m0, w
  <2> QED
    BY <1>4, <2>1 DEF TraceInv, SpansNumbered
<1> HIDE DEF t0, m0
<1>6. /\ DOMAIN tree = DOMAIN children \cup {t0}
      /\ \A x \in DOMAIN children : tree[x] = IF x = w THEN children[x] \cup {t0} ELSE children[x]
      /\ tree[t0] = {}
  <2>1. IsGrown(tree, children, w, t0)
    BY <1>5, GrownIs
  <2> HIDE DEF tree, w
  <2> QED
    BY <2>1 DEF IsGrown
<1> HIDE DEF tree
<1>7. /\ children' = [x \in DOMAIN children' |-> children'[x]]
      /\ DOMAIN children' = DOMAIN children \cup {t0, m0}
      /\ \A x \in DOMAIN children : children'[x] = IF x = w THEN children[x] \cup {t0} ELSE children[x]
      /\ children'[t0] = {m0}
  <2>1. m0 \notin DOMAIN tree
    BY <1>4, <1>5, <1>6
  <2>2. /\ children' = [x \in DOMAIN children' |-> children'[x]]
        /\ DOMAIN children' = DOMAIN tree \cup {m0}
        /\ \A x \in DOMAIN tree : children'[x] = IF x = t0 THEN tree[x] \cup {m0} ELSE tree[x]
    <3>1. IsGrown(children', tree, t0, m0)
      BY <1>3, <2>1, GrownIs
    <3> QED
      BY <3>1 DEF IsGrown
  <2> QED
    BY <1>5, <1>6, <2>2
<1>8. TraceTypes'
  BY <1>1, <1>7 DEF TraceInv, TraceTypes
<1>9. SpansNumbered'
  <2>1. \A b \in Agents : pc[b] \notin Before => pc'[b] \notin Before
    BY <1>1 DEF Before
  <2>2. \A b \in Agents :
          pc[b] \notin {"idle", "called", "links tool"} => pc'[b] \notin {"idle", "called", "links tool"}
    BY <1>1
  <2>3. \A b \in Agents : pc'[b] \in Before => turn'[b] = 0
    BY <1>1 DEF Before, TraceInv, SpansNumbered
  <2>4. \A b \in Agents : \A k \in 1..turn[b] : k \in 1..turn'[b]
    BY <1>1 DEF TraceInv, TraceTypes
  <2>5. n \in 1..turn'[a]
    BY <1>1
  <2>6. ASSUME NEW x \in DOMAIN children
        PROVE  \E b \in Agents :
                 \/ x = Whole(b) /\ pc'[b] \notin Before
                 \/ b \in Tools /\ x = Tool(b) /\ pc'[b] \notin {"idle", "called", "links tool"}
                 \/ \E k \in 1..turn'[b] : x = <<b, "turn", k>> \/ x = <<b, "model", k>>
    BY <2>1, <2>2, <2>4 DEF TraceInv, SpansNumbered
  <2>7. ASSUME NEW x \in {t0, m0}
        PROVE  \E k \in 1..turn'[a] : x = <<a, "turn", k>> \/ x = <<a, "model", k>>
    BY <2>5 DEF t0, m0
  <2> QED
    BY <1>2, <1>7, <2>3, <2>6, <2>7 DEF SpansNumbered
<1>10. ParentsThere'
  <2>1. Whole(a)' \in DOMAIN children' /\ Turn(a)' \in DOMAIN children'
    BY <1>2, <1>5, <1>7
  <2>2. \A b \in Agents : b # a => pc'[b] = pc[b] /\ Turn(b)' = Turn(b) /\ Whole(b)' = Whole(b)
    BY <1>1, <1>2
  <2> QED
    BY <1>7, <2>1, <2>2 DEF TraceInv, ParentsThere
<1>11. CallsNested'
  <2> SUFFICES ASSUME NEW t \in Tools, pc'[t] \notin {"idle", "done"} PROVE pc'[Of[t]] = "tools"
    BY DEF CallsNested
  <2>1. pc[t] \notin {"idle", "done"}
    BY <1>1, CallsTypes
  <2>2. pc[Of[t]] = "tools"
    BY <2>1 DEF TraceInv, CallsNested
  <2> QED
    BY <1>1, <2>2, CallsTypes
<1>12. ChildrenHeld'
  <2> SUFFICES ASSUME NEW t \in Tools, pc'[t] \in {"links tool", "links whole"}
               PROVE  mu'[Of[t]] = t /\ seen'[t] = children'[Turn(Of[t])']
    BY DEF ChildrenHeld
  <2>1. pc[t] \in {"links tool", "links whole"}
    BY <1>1, CallsTypes
  <2>2. mu[Of[t]] = t /\ seen[t] = children[Turn(Of[t])] /\ pc[Of[t]] = "tools"
    BY <2>1 DEF TraceInv, ChildrenHeld, CallsNested
  <2>3. Turn(Of[t]) \in DOMAIN children /\ Of[t] # a /\ Of[t] \in Agents
    BY <1>1, <2>2, CallsTypes DEF TraceInv, ParentsThere
  <2>4. Turn(Of[t]) # w
    BY SpansDiffer DEF Turn
  <2> HIDE DEF w
  <2> QED
    BY <1>1, <1>2, <1>7, <2>2, <2>3, <2>4
<1>13. OthersEnded'
  <2>1. ASSUME NEW x, Open(x) PROVE Open(x)'
    <3>1. PICK b \in Agents :
            \/ x = Whole(b) /\ pc[b] # "done"
            \/ b \in Tools /\ x = Tool(b) /\ pc[b] # "done"
            \/ x = Turn(b) /\ pc[b] \in Busy \cup {"tools"}
            \/ x = Thought(b) /\ pc[b] \in Busy
      BY <2>1 DEF Open
    <3>2. CASE b = a
      <4>1. x = Whole(a) \/ (a \in Tools /\ x = Tool(a))
        BY <1>1, <3>1, <3>2 DEF Busy
      <4> QED
        BY <1>1, <1>2, <4>1 DEF Open
    <3>3. CASE b # a
      <4>1. \/ x = Whole(b)' /\ pc'[b] # "done"
            \/ b \in Tools /\ x = Tool(b)' /\ pc'[b] # "done"
            \/ x = Turn(b)' /\ pc'[b] \in Busy \cup {"tools"}
            \/ x = Thought(b)' /\ pc'[b] \in Busy
        BY <1>1, <1>2, <3>1, <3>3
      <4> QED
        BY <4>1 DEF Open
    <3> QED
      BY <3>2, <3>3
  <2>2. ASSUME NEW x \in {t0, m0} PROVE Open(x)'
    <3>1. \/ x = Turn(a)' /\ pc'[a] \in Busy \cup {"tools"}
          \/ x = Thought(a)' /\ pc'[a] \in Busy
      BY <1>1, <1>2, <2>2 DEF Busy
    <3> QED
      BY <3>1 DEF Open
  <2>3. \A x \in DOMAIN children' : x \in DOMAIN children \/ x \in {t0, m0}
    BY <1>7
  <2> QED
    BY <1>1, <2>1, <2>2, <2>3 DEF TraceInv, OthersEnded
<1>14. Linked'
  <2>1. /\ ~Rooted(t0) /\ ~Rooted(m0)
        /\ Parent(t0) = w /\ Parent(m0) = t0
    <3>1. ~Rooted(t0) /\ ~Rooted(m0)
      BY <1>4 DEF Rooted
    <3>2. Parent(t0) = w
      BY DEF t0, Parent
    <3>3. Parent(m0) = t0
      BY DEF t0, m0, Parent
    <3> QED
      BY <3>1, <3>2, <3>3
  <2>2. IsGrown(tree, children, w, t0)
    BY <1>5, GrownIs DEF tree
  <2> HIDE DEF w
  <2>3. LinkedIn(tree)
    BY <1>5, <2>1, <2>2, GrowLinks DEF TraceInv, Linked
  <2>4. m0 \notin DOMAIN tree /\ t0 \in DOMAIN tree
    BY <1>4, <1>5, <1>6
  <2>5. IsGrown(children', tree, t0, m0)
    BY <1>3, <2>4, GrownIs
  <2>6. LinkedIn(children')
    BY <2>1, <2>3, <2>4, <2>5, GrowLinks
  <2> QED
    BY <1>1, <2>6, LinksKept
<1>15. SpansThere'
  <2>1. ASSUME NEW b \in Agents, NEW k \in 1..turn'[b]
        PROVE  <<b, "turn", k>> \in DOMAIN children' /\ <<b, "model", k>> \in DOMAIN children'
    <3>1. CASE k \in 1..turn[b]
      BY <1>7, <3>1 DEF TraceInv, SpansThere
    <3>2. CASE k \notin 1..turn[b]
      <4>1. b = a /\ k = n
        BY <1>1, <3>2 DEF TraceInv, TraceTypes
      <4> QED
        BY <1>7, <4>1 DEF t0, m0
    <3> QED
      BY <3>1, <3>2
  <2>2. ASSUME NEW u \in Tools, pc'[u] \notin {"idle", "called", "links tool"}
        PROVE  Tool(u) \in DOMAIN children'
    <3>1. pc[u] \notin {"idle", "called", "links tool"}
      BY <1>1, <2>2, CallsTypes
    <3> QED
      BY <1>7, <3>1 DEF TraceInv, SpansThere
  <2> QED
    BY <1>2, <2>1, <2>2 DEF SpansThere
<1>16. CalledNow'
  <2> SUFFICES ASSUME NEW u \in Tools, pc'[u] \notin {"idle", "done"} PROVE calledIn'[u] = turn'[Of[u]]
    BY DEF CalledNow
  <2>1. pc[u] \notin {"idle", "done"}
    BY <1>1, CallsTypes
  <2>2. pc[Of[u]] = "tools" /\ calledIn[u] = turn[Of[u]]
    BY <2>1 DEF TraceInv, CallsNested, CalledNow
  <2> QED
    BY <1>1, <2>2, CallsTypes
<1> QED
  BY <1>8, <1>9, <1>10, <1>11, <1>12, <1>13, <1>14, <1>15, <1>16 DEF TraceInv

LEMMA CallTraces ==
  ASSUME TraceInv, NEW a \in Agents, NEW calls \in SUBSET Tools, CallTools(a, calls)
  PROVE  TraceInv'
<1>1. /\ pc[a] = "answered" /\ \A t \in calls : Of[t] = a /\ pc[t] = "idle"
      /\ UNCHANGED <<mu, seen, children, turn>>
      /\ ended' = ended \cup {Thought(a)}
      /\ calledIn' = [t \in Tools |-> IF t \in calls THEN turn[a] ELSE calledIn[t]]
      /\ pc' = [t \in Agents |-> IF t \in calls THEN "called" ELSE IF t = a THEN "tools" ELSE pc[t]]
  BY DEF CallTools
<1>2. pc \in [Agents -> Places]
  BY DEF TraceInv, TraceTypes
<1>3. a \notin calls /\ \A t \in calls : t \in Agents
  BY <1>1, CallsTypes
<1>4. /\ pc' \in [Agents -> Places] /\ pc'[a] = "tools"
      /\ \A t \in calls : pc'[t] = "called"
      /\ \A b \in Agents : b # a /\ b \notin calls => pc'[b] = pc[b]
  BY <1>1, <1>2, <1>3 DEF Places
<1>5. /\ \A b : Turn(b)' = Turn(b) /\ Thought(b)' = Thought(b)
      /\ \A b : Whole(b)' = Whole(b) /\ Tool(b)' = Tool(b)
  BY <1>1 DEF Turn, Thought, Whole, Tool
<1>6. TraceTypes'
  BY <1>1, <1>4 DEF TraceInv, TraceTypes
<1>7. SpansNumbered'
  <2>1. \A b \in Agents : pc[b] \notin Before => pc'[b] \notin Before
    BY <1>1, <1>4 DEF Before
  <2>2. \A b \in Agents :
          pc[b] \notin {"idle", "called", "links tool"} => pc'[b] \notin {"idle", "called", "links tool"}
    BY <1>1, <1>4
  <2>3. \A b \in Agents : pc'[b] \in Before => pc[b] \in Before
    BY <1>1, <1>4 DEF Before
  <2> QED
    BY <1>1, <1>5, <2>1, <2>2, <2>3 DEF TraceInv, SpansNumbered
<1>8. ParentsThere'
  <2>1. \A b \in Agents :
          /\ pc'[b] \in Busy \cup {"loop", "tools"} => pc[b] \in Busy \cup {"loop", "tools"}
          /\ pc'[b] \in Busy \cup {"tools"} => pc[b] \in Busy \cup {"tools"}
    BY <1>1, <1>4 DEF Busy
  <2> QED
    BY <1>1, <1>5, <2>1 DEF TraceInv, ParentsThere
<1>9. CallsNested'
  <2> SUFFICES ASSUME NEW t \in Tools, pc'[t] \notin {"idle", "done"} PROVE pc'[Of[t]] = "tools"
    BY DEF CallsNested
  <2>1. CASE t \in calls
    BY <1>1, <1>4, <2>1
  <2>2. CASE t \notin calls
    <3>1. pc[t] \notin {"idle", "done"}
      BY <1>1, <1>4, <2>2, CallsTypes
    <3>2. pc[Of[t]] = "tools" /\ Of[t] \in Agents
      BY <3>1, CallsTypes DEF TraceInv, CallsNested
    <3> QED
      BY <1>1, <1>4, <3>2
  <2> QED
    BY <2>1, <2>2
<1>10. ChildrenHeld'
  <2>1. \A t \in Tools : pc'[t] \in {"links tool", "links whole"} => pc[t] \in {"links tool", "links whole"}
    BY <1>4, CallsTypes
  <2> QED
    BY <1>1, <1>5, <2>1 DEF TraceInv, ChildrenHeld
<1>11. OthersEnded'
  <2> SUFFICES ASSUME NEW s \in DOMAIN children, s \notin ended, s # Thought(a) PROVE Open(s)'
    BY <1>1 DEF OthersEnded
  <2>1. PICK b \in Agents :
          \/ s = Whole(b) /\ pc[b] # "done"
          \/ b \in Tools /\ s = Tool(b) /\ pc[b] # "done"
          \/ s = Turn(b) /\ pc[b] \in Busy \cup {"tools"}
          \/ s = Thought(b) /\ pc[b] \in Busy
    BY DEF TraceInv, OthersEnded, Open
  <2>2. \/ s = Whole(b) /\ pc'[b] # "done"
        \/ b \in Tools /\ s = Tool(b) /\ pc'[b] # "done"
        \/ s = Turn(b) /\ pc'[b] \in Busy \cup {"tools"}
        \/ s = Thought(b) /\ pc'[b] \in Busy
    BY <1>1, <1>4, <2>1 DEF Busy
  <2> QED
    BY <1>5, <2>2 DEF Open
<1>12. Linked'
  <2>1. ASSUME NEW s \in DOMAIN children, ~Rooted(s) PROVE Parent(s)' = Parent(s)
    <3>1. PICK b \in Agents :
            \/ s = Whole(b) /\ pc[b] \notin Before
            \/ b \in Tools /\ s = Tool(b) /\ pc[b] \notin {"idle", "called", "links tool"}
            \/ \E n \in 1..turn[b] : s = <<b, "turn", n>> \/ s = <<b, "model", n>>
      BY DEF TraceInv, SpansNumbered
    <3>2. CASE s[2] \in {"turn", "model"}
      BY <3>2 DEF Parent, Whole
    <3>3. CASE s[2] \notin {"turn", "model"}
      <4>1. s[1] = b /\ pc[b] # "idle"
        <5>1. CASE s = Whole(b) /\ pc[b] \notin Before
          BY <5>1 DEF Whole, Before
        <5>2. CASE s = Tool(b) /\ pc[b] \notin {"idle", "called", "links tool"}
          BY <5>2 DEF Tool
        <5>3. ASSUME NEW n, s = <<b, "turn", n>> \/ s = <<b, "model", n>> PROVE FALSE
          BY <3>3, <5>3
        <5> QED
          BY <3>1, <5>1, <5>2, <5>3
      <4>2. b \notin calls
        BY <1>1, <4>1
      <4>3. b \in Tools => calledIn'[b] = calledIn[b]
        BY <1>1, <4>2
      <4>4. CASE b \in Tools
        BY <3>3, <4>1, <4>3, <4>4 DEF Parent
      <4>5. CASE b \notin Tools
        <5>1. b \in Runs
          BY <4>5 DEF Agents
        <5>2. s = Whole(b)
          <6>1. ASSUME NEW n, s = <<b, "turn", n>> \/ s = <<b, "model", n>> PROVE FALSE
            BY <3>3, <6>1
          <6> QED
            BY <3>1, <4>5, <6>1
        <5> QED
          BY <2>1, <5>1, <5>2 DEF Rooted
      <4> QED
        BY <4>4, <4>5
    <3> QED
      BY <3>2, <3>3
  <2>2. \A s : Rooted(s)' <=> Rooted(s)
    BY DEF Rooted, Whole
  <2> QED
    BY <1>1, <2>1, <2>2 DEF TraceInv, Linked, LinkedIn
<1>13. SpansThere'
  <2>1. \A t \in Tools : pc'[t] \notin {"idle", "called", "links tool"} =>
          pc[t] \notin {"idle", "called", "links tool"}
    BY <1>1, <1>4, CallsTypes
  <2> QED
    BY <1>1, <1>5, <2>1 DEF TraceInv, SpansThere
<1>14. CalledNow'
  <2> SUFFICES ASSUME NEW t \in Tools, pc'[t] \notin {"idle", "done"} PROVE calledIn'[t] = turn'[Of[t]]
    BY DEF CalledNow
  <2>1. CASE t \in calls
    BY <1>1, <2>1
  <2>2. CASE t \notin calls
    <3>1. pc[t] \notin {"idle", "done"}
      BY <1>1, <1>4, <2>2, CallsTypes
    <3> QED
      BY <1>1, <2>2, <3>1 DEF TraceInv, CalledNow
  <2> QED
    BY <2>1, <2>2
<1> QED
  BY <1>6, <1>7, <1>8, <1>9, <1>10, <1>11, <1>12, <1>13, <1>14 DEF TraceInv

LEMMA LoadTraces == ASSUME TraceInv, NEW t \in Tools, LoadChildren(t) PROVE TraceInv'
<1>0. /\ mu[Of[t]] = Nobody /\ mu' = [mu EXCEPT ![Of[t]] = t]
      /\ seen' = [seen EXCEPT ![t] = children[Turn(Of[t])]]
      /\ UNCHANGED <<children, ended, turn, calledIn>>
      /\ \/ pc[t] = "called" /\ pc' = [pc EXCEPT ![t] = "links tool"]
         \/ pc[t] = "delegates" /\ pc' = [pc EXCEPT ![t] = "links whole"]
  BY DEF LoadChildren, Goes
<1>1. /\ pc' \in [Agents -> Places]
      /\ \/ pc[t] = "called" /\ pc'[t] = "links tool"
         \/ pc[t] = "delegates" /\ pc'[t] = "links whole"
      /\ \A b \in Agents : b # t => pc'[b] = pc[b]
  <2>1. pc \in [Agents -> Places] /\ t \in Agents /\ {"links tool", "links whole"} \subseteq Places
    BY CallsTypes DEF TraceInv, TraceTypes, Places
  <2> QED
    BY <1>0, <2>1
<1>2. /\ mu' \in [Agents -> Agents \cup {Nobody}] /\ mu'[Of[t]] = t
      /\ \A b \in Agents : b # Of[t] => mu'[b] = mu[b]
      /\ seen' = [u \in Tools |-> seen'[u]] /\ seen'[t] = children[Turn(Of[t])]
      /\ \A u \in Tools : u # t => seen'[u] = seen[u]
  <2>1. mu \in [Agents -> Agents \cup {Nobody}] /\ seen = [u \in Tools |-> seen[u]]
    BY DEF TraceInv, TraceTypes
  <2> QED
    BY <1>0, <2>1, CallsTypes
<1>3. /\ \A b : Turn(b)' = Turn(b) /\ Thought(b)' = Thought(b)
      /\ \A b : Whole(b)' = Whole(b) /\ Tool(b)' = Tool(b)
  BY <1>0 DEF Turn, Thought, Whole, Tool
<1>4. TraceTypes'
  <2>1. turn \in [Agents -> Nat] /\ children = [s \in DOMAIN children |-> children[s]]
    BY DEF TraceInv, TraceTypes
  <2>2. turn' \in [Agents -> Nat]
    BY <1>0, <2>1
  <2>3. children' = [s \in DOMAIN children' |-> children'[s]]
    BY <1>0, <2>1
  <2>4. pc' \in [Agents -> Places] /\ mu' \in [Agents -> Agents \cup {Nobody}]
        /\ seen' = [u \in Tools |-> seen'[u]]
    BY <1>1, <1>2
  <2>5. calledIn' = [u \in Tools |-> calledIn'[u]]
    BY <1>0 DEF TraceInv, TraceTypes
  <2> QED
    BY <2>2, <2>3, <2>4, <2>5 DEF TraceTypes
<1>5. SpansNumbered'
  <2>1. \A b \in Agents : pc[b] \notin Before => pc'[b] \notin Before
    BY <1>1 DEF Before
  <2>2. \A b \in Agents :
          pc[b] \notin {"idle", "called", "links tool"} => pc'[b] \notin {"idle", "called", "links tool"}
    BY <1>1
  <2>3. \A b \in Agents : pc'[b] \in Before => pc[b] \in Before
    BY <1>1 DEF Before
  <2> QED
    BY <1>0, <1>3, <2>1, <2>2, <2>3 DEF TraceInv, SpansNumbered
<1>6. ParentsThere'
  <2>1. \A b \in Agents :
          /\ pc'[b] \in Busy \cup {"loop", "tools"} => pc[b] \in Busy \cup {"loop", "tools"}
          /\ pc'[b] \in Busy \cup {"tools"} => pc[b] \in Busy \cup {"tools"}
    BY <1>1 DEF Busy
  <2> QED
    BY <1>0, <1>3, <2>1 DEF TraceInv, ParentsThere
<1>7. CallsNested'
  <2> SUFFICES ASSUME NEW u \in Tools, pc'[u] \notin {"idle", "done"} PROVE pc'[Of[u]] = "tools"
    BY DEF CallsNested
  <2>1. pc[u] \notin {"idle", "done"}
    BY <1>1, CallsTypes
  <2>2. pc[Of[u]] = "tools" /\ Of[u] \in Agents
    BY <2>1, CallsTypes DEF TraceInv, CallsNested
  <2> QED
    BY <1>1, <2>2
<1>8. ChildrenHeld'
  <2> SUFFICES ASSUME NEW u \in Tools, pc'[u] \in {"links tool", "links whole"}
               PROVE  mu'[Of[u]] = u /\ seen'[u] = children'[Turn(Of[u])']
    BY DEF ChildrenHeld
  <2>1. CASE u = t
    BY <1>0, <1>2, <1>3, <2>1
  <2>2. CASE u # t
    <3>1. pc[u] \in {"links tool", "links whole"}
      BY <1>1, <2>2, CallsTypes
    <3>2. mu[Of[u]] = u /\ seen[u] = children[Turn(Of[u])]
      BY <3>1 DEF TraceInv, ChildrenHeld
    <3>3. Of[u] # Of[t] /\ Of[u] \in Agents
      BY <1>0, <3>2, CallsTypes
    <3> QED
      BY <1>0, <1>2, <1>3, <2>2, <3>2, <3>3
  <2> QED
    BY <2>1, <2>2
<1>9. OthersEnded'
  <2>1. \A b \in Agents :
          /\ pc[b] # "done" => pc'[b] # "done"
          /\ pc[b] \in Busy \cup {"tools"} => pc'[b] \in Busy \cup {"tools"}
          /\ pc[b] \in Busy => pc'[b] \in Busy
    BY <1>1 DEF Busy
  <2>2. \A s : Open(s) => Open(s)'
    BY <1>3, <2>1 DEF Open
  <2> QED
    BY <1>0, <2>2 DEF TraceInv, OthersEnded
<1>10. Linked'
  BY <1>0, LinksKept DEF TraceInv, Linked
<1>11. SpansThere'
  <2>1. \A u \in Tools : pc'[u] \notin {"idle", "called", "links tool"} =>
          pc[u] \notin {"idle", "called", "links tool"}
    BY <1>1, CallsTypes
  <2> QED
    BY <1>0, <1>3, <2>1 DEF TraceInv, SpansThere
<1>12. CalledNow'
  <2>1. \A u \in Tools : pc'[u] \notin {"idle", "done"} => pc[u] \notin {"idle", "done"}
    BY <1>1, CallsTypes
  <2> QED
    BY <1>0, <2>1 DEF TraceInv, CalledNow
<1> QED
  BY <1>4, <1>5, <1>6, <1>7, <1>8, <1>9, <1>10, <1>11, <1>12 DEF TraceInv

(* A tool call stores the list with its span, or with that of the          *)
(* sub-agent it becomes.                                                   *)
LEMMA StoreTraces == ASSUME TraceInv, NEW t \in Tools, LinkTool(t) \/ LinkWhole(t) PROVE TraceInv'
<1> DEFINE s == IF pc[t] = "links tool" THEN Tool(t) ELSE Whole(t)
           p == Turn(Of[t])
<1>0. /\ mu' = [mu EXCEPT ![Of[t]] = Nobody]
      /\ UNCHANGED <<seen, ended, turn, calledIn>>
      /\ \/ pc[t] = "links tool" /\ pc' = [pc EXCEPT ![t] = "executes"] /\ s = Tool(t)
         \/ pc[t] = "links whole" /\ pc' = [pc EXCEPT ![t] = "loop"] /\ s = Whole(t)
  BY DEF LinkTool, LinkWhole, StoreChildren, Goes
<1>00. children' = [x \in DOMAIN children \cup {s} |->
                      IF x = s THEN {} ELSE IF x = p THEN seen[t] \cup {s} ELSE children[x]]
  BY DEF LinkTool, LinkWhole, StoreChildren
<1>1. /\ pc' \in [Agents -> Places]
      /\ \/ pc[t] = "links tool" /\ pc'[t] = "executes"
         \/ pc[t] = "links whole" /\ pc'[t] = "loop"
      /\ \A b \in Agents : b # t => pc'[b] = pc[b]
  <2>1. pc \in [Agents -> Places] /\ t \in Agents /\ {"executes", "loop"} \subseteq Places
    BY CallsTypes DEF TraceInv, TraceTypes, Places
  <2> QED
    BY <1>0, <2>1
<1>2. /\ mu' \in [Agents -> Agents \cup {Nobody}]
      /\ \A b \in Agents : b # Of[t] => mu'[b] = mu[b]
  <2>1. mu \in [Agents -> Agents \cup {Nobody}]
    BY DEF TraceInv, TraceTypes
  <2> QED
    BY <1>0, <2>1, CallsTypes
<1>3. /\ \A b : Turn(b)' = Turn(b) /\ Thought(b)' = Thought(b)
      /\ \A b : Whole(b)' = Whole(b) /\ Tool(b)' = Tool(b)
  BY <1>0 DEF Turn, Thought, Whole, Tool
<1>4. /\ mu[Of[t]] = t /\ seen[t] = children[p] /\ pc[Of[t]] = "tools"
      /\ p \in DOMAIN children
  <2>1. mu[Of[t]] = t /\ seen[t] = children[p] /\ pc[Of[t]] = "tools"
    BY <1>1 DEF TraceInv, ChildrenHeld, CallsNested
  <2> QED
    BY <2>1, CallsTypes DEF TraceInv, ParentsThere
<1>5. s \notin DOMAIN children
  <2>1. \A a \in Agents : s = Whole(a) => a = t /\ pc[t] = "links whole"
    BY <1>0, SpansDiffer
  <2>2. \A a \in Agents : s = Tool(a) => a = t /\ pc[t] = "links tool"
    BY <1>0, SpansDiffer
  <2>3. \A a, n : s # <<a, "turn", n>> /\ s # <<a, "model", n>>
    BY <1>0, SpansDiffer
  <2> HIDE DEF s
  <2> QED
    BY <2>1, <2>2, <2>3 DEF TraceInv, SpansNumbered, Before
<1> HIDE DEF s, p
<1>6. /\ children' = [x \in DOMAIN children' |-> children'[x]]
      /\ DOMAIN children' = DOMAIN children \cup {s}
      /\ \A x \in DOMAIN children : children'[x] = IF x = p THEN children[x] \cup {s} ELSE children[x]
      /\ children'[s] = {}
  BY <1>00, <1>4, <1>5
<1>7. TraceTypes'
  BY <1>0, <1>1, <1>2, <1>6 DEF TraceInv, TraceTypes
<1>8. SpansNumbered'
  <2>1. \A b \in Agents : pc[b] \notin Before => pc'[b] \notin Before
    BY <1>1 DEF Before
  <2>2. \A b \in Agents :
          pc[b] \notin {"idle", "called", "links tool"} => pc'[b] \notin {"idle", "called", "links tool"}
    BY <1>1
  <2>3. \A b \in Agents : pc'[b] \in Before => pc[b] \in Before
    BY <1>1 DEF Before
  <2>4. \/ s = Whole(t) /\ pc'[t] \notin Before
        \/ s = Tool(t) /\ pc'[t] \notin {"idle", "called", "links tool"}
    BY <1>0, <1>1 DEF Before
  <2>5. ASSUME NEW x \in DOMAIN children'
        PROVE  \E b \in Agents :
                 \/ x = Whole(b) /\ pc'[b] \notin Before
                 \/ b \in Tools /\ x = Tool(b) /\ pc'[b] \notin {"idle", "called", "links tool"}
                 \/ \E k \in 1..turn[b] : x = <<b, "turn", k>> \/ x = <<b, "model", k>>
    <3>1. CASE x = s
      BY <2>4, <3>1, CallsTypes
    <3>2. CASE x \in DOMAIN children
      BY <2>1, <2>2, <3>2 DEF TraceInv, SpansNumbered
    <3> QED
      BY <1>6, <3>1, <3>2
  <2> QED
    BY <1>0, <1>3, <2>3, <2>5 DEF TraceInv, SpansNumbered
<1>9. ParentsThere'
  <2>1. \A b \in Agents : b # t => pc'[b] = pc[b]
    BY <1>1
  <2>2. pc'[t] \notin Busy \cup {"tools"} /\ (pc'[t] = "loop" => Whole(t) \in DOMAIN children')
    BY <1>0, <1>1, <1>6 DEF Busy
  <2> QED
    BY <1>3, <1>6, <2>1, <2>2 DEF TraceInv, ParentsThere
<1>10. CallsNested'
  <2> SUFFICES ASSUME NEW u \in Tools, pc'[u] \notin {"idle", "done"} PROVE pc'[Of[u]] = "tools"
    BY DEF CallsNested
  <2>1. pc[u] \notin {"idle", "done"}
    BY <1>1, CallsTypes
  <2>2. pc[Of[u]] = "tools" /\ Of[u] \in Agents
    BY <2>1, CallsTypes DEF TraceInv, CallsNested
  <2> QED
    BY <1>1, <2>2
<1>11. ChildrenHeld'
  <2> SUFFICES ASSUME NEW u \in Tools, pc'[u] \in {"links tool", "links whole"}
               PROVE  mu'[Of[u]] = u /\ seen'[u] = children'[Turn(Of[u])']
    BY DEF ChildrenHeld
  <2>1. u # t /\ pc[u] \in {"links tool", "links whole"}
    BY <1>1, CallsTypes
  <2>2. mu[Of[u]] = u /\ seen[u] = children[Turn(Of[u])] /\ pc[Of[u]] = "tools"
    BY <2>1 DEF TraceInv, ChildrenHeld, CallsNested
  <2>3. Of[u] # Of[t] /\ Of[u] \in Agents /\ Turn(Of[u]) \in DOMAIN children
    BY <1>4, <2>1, <2>2, CallsTypes DEF TraceInv, ParentsThere
  <2>4. Turn(Of[u]) # p
    BY <2>3, SpansDiffer DEF p, Turn
  <2> QED
    BY <1>0, <1>2, <1>3, <1>6, <2>2, <2>3, <2>4
<1>12. OthersEnded'
  <2>1. \A b \in Agents :
          /\ pc[b] # "done" => pc'[b] # "done"
          /\ pc[b] \in Busy \cup {"tools"} => pc'[b] \in Busy \cup {"tools"}
          /\ pc[b] \in Busy => pc'[b] \in Busy
    BY <1>1 DEF Busy
  <2>2. \A x : Open(x) => Open(x)'
    BY <1>3, <2>1 DEF Open
  <2>3. ASSUME NEW x, x = s PROVE Open(x)'
    <3>1. t \in Agents /\ t \in Tools /\ pc'[t] # "done"
      BY <1>1, CallsTypes
    <3>2. x = Whole(t)' \/ x = Tool(t)'
      BY <1>0, <1>3, <2>3
    <3> QED
      BY <3>1, <3>2 DEF Open
  <2> SUFFICES ASSUME NEW x \in DOMAIN children' PROVE x \in ended' \/ Open(x)'
    BY DEF OthersEnded
  <2>4. CASE x = s
    BY <2>3, <2>4
  <2>5. CASE x \in DOMAIN children
    <3>1. x \in ended \/ Open(x)
      BY <2>5 DEF TraceInv, OthersEnded
    <3> QED
      BY <1>0, <2>2, <3>1
  <2> QED
    BY <1>6, <2>4, <2>5
<1>13. Linked'
  <2>1. calledIn[t] = turn[Of[t]]
    BY <1>1 DEF TraceInv, CalledNow
  <2>2. Parent(s) = p
    <3>1. CASE s = Tool(t)
      BY <2>1, <3>1 DEF Parent, Tool, Turn, p
    <3>2. CASE s = Whole(t)
      BY <2>1, <3>2 DEF Parent, Whole, Turn, p
    <3> QED
      BY <1>0, <3>1, <3>2
  <2>3. ~Rooted(s)
    <3>1. \A r \in Runs : r # t
      BY CallsTypes
    <3>2. \A r : Whole(r) # Tool(t) /\ (Whole(r) = Whole(t) => r = t)
      BY SpansDiffer
    <3> QED
      BY <1>0, <3>1, <3>2 DEF Rooted
  <2>4. IsGrown(children', children, p, s)
    BY <1>6 DEF IsGrown
  <2> QED
    BY <1>0, <1>4, <1>5, <2>2, <2>3, <2>4, GrowLinks, LinksKept DEF TraceInv, Linked
<1>14. SpansThere'
  <2>1. ASSUME NEW u \in Tools, pc'[u] \notin {"idle", "called", "links tool"}
        PROVE  Tool(u) \in DOMAIN children'
    <3>1. CASE pc[u] \notin {"idle", "called", "links tool"}
      BY <1>6, <3>1 DEF TraceInv, SpansThere
    <3>2. CASE pc[u] \in {"idle", "called", "links tool"}
      <4>1. u = t /\ pc[t] = "links tool"
        BY <1>1, <2>1, <3>2, CallsTypes
      <4> QED
        BY <1>0, <1>6, <4>1
    <3> QED
      BY <3>1, <3>2
  <2> QED
    BY <1>0, <1>3, <1>6, <2>1 DEF TraceInv, SpansThere
<1>15. CalledNow'
  <2>1. \A u \in Tools : pc'[u] \notin {"idle", "done"} => pc[u] \notin {"idle", "done"}
    BY <1>1, CallsTypes
  <2> QED
    BY <1>0, <2>1 DEF TraceInv, CalledNow
<1> QED
  BY <1>7, <1>8, <1>9, <1>10, <1>11, <1>12, <1>13, <1>14, <1>15 DEF TraceInv

LEMMA TraceNext == TraceInv /\ [Next]_vars => TraceInv'
<1> SUFFICES ASSUME TraceInv, [Next]_vars PROVE TraceInv'
  OBVIOUS
<1>0. pc \in [Agents -> Places]
  BY DEF TraceInv, TraceTypes
<1>1. ASSUME NEW a \in Agents,
             \/ \E u \in Usage \cup {0} : ModelAnswers(a, u)
             \/ LoadTotal(a) \/ StoreTotal(a) \/ LogTotal(a)
      PROVE  TraceInv'
  <2>1. /\ pc[a] \in Busy /\ \E q \in Busy : Goes(a, q)
        /\ UNCHANGED <<spanVars, turn>>
    BY <1>1 DEF ModelAnswers, LoadTotal, StoreTotal, LogTotal, Busy
  <2>2. PICK q \in Busy : Goes(a, q)
    BY <2>1
  <2>3. q \in Places /\ q \notin Before /\ q \notin {"idle", "called", "links tool", "links whole", "done"}
        /\ pc[a] \notin {"idle", "done", "tools", "called", "links tool"}
    BY <2>1, <2>2 DEF Busy, Places, Before
  <2> QED
    BY <2>1, <2>2, <2>3, CloseKeeps DEF spanVars
<1>2. ASSUME NEW a \in Agents, ModelFails(a) \/ Answer(a) PROVE TraceInv'
  <2>1. /\ pc[a] \in Busy /\ Goes(a, "over")
        /\ ended' = ended \cup {Thought(a), Turn(a)} /\ UNCHANGED <<children, turn, mu, seen, calledIn>>
    BY <1>2 DEF ModelFails, Answer, Busy
  <2>2. /\ "over" \in Places /\ "over" \notin Before \cup Busy
        /\ pc[a] \notin {"idle", "done", "tools", "called", "links tool"}
    BY <2>1 DEF Busy, Places, Before
  <2> QED
    BY <2>1, <2>2, CloseKeeps
<1>3. ASSUME NEW a \in Agents, EndTurn(a) PROVE TraceInv'
  <2>1. /\ pc[a] = "tools" /\ Goes(a, "loop")
        /\ \A t \in Tools : Of[t] = a => pc[t] \in {"idle", "done"}
        /\ ended' = ended \cup {Turn(a)} /\ UNCHANGED <<children, turn, mu, seen, calledIn>>
    BY <1>3 DEF EndTurn
  <2>2. "loop" \in Places /\ "loop" \notin Before \cup Busy /\ "tools" \notin Busy
    BY DEF Busy, Places, Before
  <2> QED
    BY <2>1, <2>2, CloseKeeps
<1>4. ASSUME NEW a \in Agents, Finish(a) PROVE TraceInv'
  <2>1. /\ pc[a] = "over" /\ Goes(a, "done")
        /\ ended' = ended \cup {Whole(a)} \cup (IF a \in Tools THEN {Tool(a)} ELSE {})
        /\ UNCHANGED <<children, turn, mu, seen, calledIn>>
    BY <1>4 DEF Finish
  <2>2. "done" \in Places /\ "done" \notin Before \cup Busy /\ "over" \notin Busy
    BY DEF Busy, Places, Before
  <2>3. \A s \in DOMAIN children : s \in {Whole(a), Tool(a)} => s \in ended'
    <3> SUFFICES ASSUME Tool(a) \in DOMAIN children PROVE Tool(a) \in ended'
      BY <2>1
    <3>1. a \in Tools
      <4>1. \A b \in Agents : Tool(a) = Tool(b) => a = b
        BY SpansDiffer
      <4>2. \A b \in Agents : Tool(a) # Whole(b) /\ \A n : Tool(a) # <<b, "turn", n>> /\ Tool(a) # <<b, "model", n>>
        BY SpansDiffer
      <4> QED
        BY <4>1, <4>2 DEF TraceInv, SpansNumbered
    <3> QED
      BY <2>1, <3>1
  <2> QED
    BY <2>1, <2>2, <2>3, CloseKeeps
<1>5. ASSUME NEW t \in Tools, Delegate(t) \/ Recall(t) \/ ToolEnds(t) PROVE TraceInv'
  <2>0. t \in Agents
    BY CallsTypes
  <2>1. CASE Delegate(t)
    <3>1. pc[t] = "executes" /\ Goes(t, "delegates") /\ UNCHANGED <<spanVars, turn>>
      BY <2>1 DEF Delegate
    <3>2. {"executes", "delegates"} \subseteq Before \cap Places /\ "delegates" \notin Busy /\ "executes" \notin Busy
      BY DEF Before, Busy, Places
    <3> QED
      BY <2>0, <3>1, <3>2, CloseKeeps DEF spanVars
  <2>2. CASE Recall(t)
    <3>1. pc[t] = "loop" /\ Goes(t, "over") /\ UNCHANGED <<spanVars, turn>>
      BY <2>2 DEF Recall
    <3>2. "over" \in Places /\ "over" \notin Before \cup Busy /\ "loop" \notin Busy
      BY DEF Before, Busy, Places
    <3> QED
      BY <2>0, <3>1, <3>2, CloseKeeps DEF spanVars
  <2>3. CASE ToolEnds(t)
    <3>1. /\ pc[t] = "executes" /\ Goes(t, "done")
          /\ ended' = ended \cup {Tool(t)} /\ UNCHANGED <<children, turn, mu, seen, calledIn>>
      BY <2>3 DEF ToolEnds
    <3>2. "done" \in Places /\ "done" \notin Before \cup Busy /\ "executes" \in Before \ Busy
      BY DEF Before, Busy, Places
    <3>3. Whole(t) \notin DOMAIN children
      <4>1. \A b \in Agents : Whole(t) = Whole(b) => t = b
        BY SpansDiffer
      <4>2. \A b \in Agents : Whole(t) # Tool(b) /\ \A n : Whole(t) # <<b, "turn", n>> /\ Whole(t) # <<b, "model", n>>
        BY SpansDiffer
      <4> QED
        BY <3>1, <3>2, <4>1, <4>2 DEF TraceInv, SpansNumbered
    <3> QED
      BY <2>0, <3>1, <3>2, <3>3, CloseKeeps
  <2> QED
    BY <1>5, <2>1, <2>2, <2>3
<1>6. CASE UNCHANGED vars
  <2>1. UNCHANGED <<pc, turn, mu, seen, children, ended, calledIn>>
    BY <1>6 DEF vars, spanVars
  <2>2. TraceTypes'
    BY <2>1 DEF TraceInv, TraceTypes
  <2>3. \A b : Turn(b)' = Turn(b) /\ Thought(b)' = Thought(b) /\ Whole(b)' = Whole(b) /\ Tool(b)' = Tool(b)
    BY <2>1 DEF Turn, Thought, Whole, Tool
  <2>4. SpansNumbered'
    BY <2>1, <2>3 DEF TraceInv, SpansNumbered
  <2>5. ParentsThere'
    BY <2>1, <2>3 DEF TraceInv, ParentsThere
  <2>6. CallsNested'
    BY <2>1 DEF TraceInv, CallsNested
  <2>7. ChildrenHeld'
    BY <2>1, <2>3 DEF TraceInv, ChildrenHeld
  <2>8. OthersEnded'
    <3>1. \A x : Open(x) => Open(x)'
      BY <2>1, <2>3 DEF Open
    <3> QED
      BY <2>1, <3>1 DEF TraceInv, OthersEnded
  <2>9. Linked'
    BY <2>1, LinksKept DEF TraceInv, Linked
  <2>10. SpansThere' /\ CalledNow'
    BY <2>1, <2>3 DEF TraceInv, SpansThere, CalledNow
  <2> QED
    BY <2>2, <2>4, <2>5, <2>6, <2>7, <2>8, <2>9, <2>10 DEF TraceInv
<1> QED
  BY <1>1, <1>2, <1>3, <1>4, <1>5, <1>6, StartTraces, AskTraces, CallTraces, LoadTraces,
     StoreTraces DEF Next

(* Whatever runs, tools and sub-agents do at once, and however they end,   *)
(* the trace a run exports is complete: each of their turns, calls of the  *)
(* model and tool calls has a span in it, which has ended, under the one   *)
(* it belongs under and no other.                                          *)
THEOREM TraceHolds == Spec => []TraceComplete
<1>1. TraceInv => TraceComplete
  <2> SUFFICES ASSUME TraceInv, NEW r \in Runs, NEW a \in Agents, pc[r] = "done", Within(a, r)
               PROVE  /\ \A n \in 1..turn[a] :
                           {<<a, "turn", n>>, <<a, "model", n>>} \subseteq DOMAIN children
                      /\ a \in Tools /\ pc[a] # "idle" => Tool(a) \in DOMAIN children
                      /\ \A s \in DOMAIN children :
                           s[1] = a =>
                             /\ s \in ended
                             /\ {p \in DOMAIN children : s \in children[p]} =
                                  IF s = Whole(r) THEN {} ELSE {Parent(s)}
    BY DEF TraceComplete
  <2>1. pc[a] \in {"idle", "done"}
    BY CallsTypes DEF Within, TraceInv, CallsNested
  <2>2. /\ \A n \in 1..turn[a] :
             {<<a, "turn", n>>, <<a, "model", n>>} \subseteq DOMAIN children
        /\ a \in Tools /\ pc[a] # "idle" => Tool(a) \in DOMAIN children
    BY <2>1 DEF TraceInv, SpansThere
  <2>3. ASSUME NEW s \in DOMAIN children, s[1] = a, Open(s) PROVE FALSE
    <3>1. pc[a] = "done"
      <4>1. PICK b \in Agents :
              \/ s = Whole(b) /\ pc[b] \notin Before
              \/ b \in Tools /\ s = Tool(b) /\ pc[b] \notin {"idle", "called", "links tool"}
              \/ \E n \in 1..turn[b] : s = <<b, "turn", n>> \/ s = <<b, "model", n>>
        BY DEF TraceInv, SpansNumbered
      <4>2. b = a
        <5>1. CASE s = Whole(b)
          BY <2>3, <5>1 DEF Whole
        <5>2. CASE s = Tool(b)
          BY <2>3, <5>2 DEF Tool
        <5>3. ASSUME NEW n, s = <<b, "turn", n>> \/ s = <<b, "model", n>> PROVE b = a
          BY <2>3, <5>3
        <5> QED
          BY <4>1, <5>1, <5>2, <5>3
      <4>3. turn[a] = 0 => ~\E n \in 1..turn[a] : TRUE
        OBVIOUS
      <4>4. pc[a] = "idle" => turn[a] = 0
        BY DEF TraceInv, SpansNumbered, Before
      <4> QED
        BY <2>1, <4>1, <4>2, <4>3, <4>4 DEF Before
    <3>2. PICK b \in Agents :
            \/ s = Whole(b) /\ pc[b] # "done"
            \/ b \in Tools /\ s = Tool(b) /\ pc[b] # "done"
            \/ s = Turn(b) /\ pc[b] \in Busy \cup {"tools"}
            \/ s = Thought(b) /\ pc[b] \in Busy
      BY <2>3 DEF Open
    <3>3. s[1] = b
      <4>1. CASE s = Whole(b)
        BY <4>1 DEF Whole
      <4>2. CASE s = Tool(b)
        BY <4>2 DEF Tool
      <4>3. CASE s = Turn(b)
        BY <4>3 DEF Turn
      <4>4. CASE s = Thought(b)
        BY <4>4 DEF Thought
      <4> QED
        BY <3>2, <4>1, <4>2, <4>3, <4>4
    <3> QED
      BY <2>3, <3>1, <3>2, <3>3 DEF Busy
  <2>4. ASSUME NEW s \in DOMAIN children, s[1] = a
        PROVE  {p \in DOMAIN children : s \in children[p]} = IF s = Whole(r) THEN {} ELSE {Parent(s)}
    <3>1. Rooted(s) <=> s = Whole(r)
      <4>1. ASSUME NEW q \in Runs, s = Whole(q) PROVE q = r
        <5>1. a = q
          BY <2>4, <4>1 DEF Whole
        <5> QED
          BY <5>1, CallsTypes DEF Within
      <4> QED
        BY <4>1 DEF Rooted
    <3>2. ~Rooted(s) => Parent(s) \in DOMAIN children
      BY DEF TraceInv, Linked, LinkedIn
    <3>3. \A p \in DOMAIN children : s \in children[p] <=> ~Rooted(s) /\ p = Parent(s)
      BY DEF TraceInv, Linked, LinkedIn
    <3> QED
      BY <3>1, <3>2, <3>3
  <2>5. ASSUME NEW s \in DOMAIN children, s[1] = a PROVE s \in ended
    BY <2>3, <2>5 DEF TraceInv, OthersEnded
  <2> QED
    BY <2>2, <2>4, <2>5
<1> QED
  BY <1>1, TraceInit, TraceNext, PTL DEF Spec

=============================================================================
