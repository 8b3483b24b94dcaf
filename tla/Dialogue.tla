------------------------------ MODULE Dialogue -------------------------------
(***************************************************************************)
(* What a chat is to those who read it: prompts, thoughts, tool calls      *)
(* together with what came of them, and answers.  A turn's calls and their *)
(* results are one step, although tools run in parallel and for a time of  *)
(* their own: AgentLoop implements this as long as prompts wait for each   *)
(* other.  A run may break off anywhere between two steps.                 *)
(***************************************************************************)
EXTENDS Naturals, Sequences

CONSTANTS Runs, Sessions, Chat, MaxCalls

VARIABLE log   (* the messages of each chat *)

Note(r, kind, k) == [kind |-> kind, run |-> r, k |-> k]

Says(r, messages) == log' = [log EXCEPT ![Chat[r]] = @ \o messages]

Init == log = [s \in Sessions |-> <<>>]

(* The last word in the chat was one of these kinds, and was r's.          *)
After(r, kinds) ==
  LET l == log[Chat[r]]
  IN  l # <<>> /\ l[Len(l)].run = r /\ l[Len(l)].kind \in kinds

Prompt(r) ==
  /\ \A i \in DOMAIN log[Chat[r]] : log[Chat[r]][i].run # r
  /\ Says(r, <<Note(r, "user", 0)>>)

Thought(r) ==
  /\ After(r, {"user", "obs", "reminder"})
  /\ Says(r, <<Note(r, "think", 0)>>)

Turn(r, n) ==
  /\ After(r, {"user", "think", "obs", "reminder"})
  /\ Says(r, <<Note(r, "call", n)>> \o [k \in 1..n |-> Note(r, "obs", k)])

Reminder(r) ==
  /\ After(r, {"obs"})
  /\ Says(r, <<Note(r, "reminder", 0)>>)

Answer(r) ==
  /\ After(r, {"user", "think", "obs", "reminder"})
  /\ Says(r, <<Note(r, "answer", 0)>>)

Next ==
  \E r \in Runs :
    \/ Prompt(r) \/ Thought(r) \/ Reminder(r) \/ Answer(r)
    \/ \E n \in 1..MaxCalls : Turn(r, n)

Spec == Init /\ [][Next]_log

=============================================================================
