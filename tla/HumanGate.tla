----------------------------- MODULE HumanGate ------------------------------
(***************************************************************************)
(* What the approval flow promises, with no ticket, map, channel or timer: *)
(* a gated call runs only after the human was asked about that very call   *)
(* and said yes.  A call may be refused at any time before it runs, for a  *)
(* timeout overrules even a yes.  The promise ends with the process: what  *)
(* a second process makes of old requests is not described.                *)
(***************************************************************************)
CONSTANTS Calls, Gated

VARIABLES
  asked,  (* calls whose request the human has seen      *)
  yes,    (* calls the human approved, in time or too late *)
  stage,  (* what became of each call                    *)
  up      (* whether the first process is still running  *)

Init ==
  /\ up = TRUE
  /\ asked = {}
  /\ yes = {}
  /\ stage = [c \in Calls |-> "idle"]

Ask(c) ==
  /\ c \in Gated
  /\ stage[c] = "idle"
  /\ asked' = asked \cup {c}
  /\ UNCHANGED <<yes, stage>>

SayYes(c) ==
  /\ c \in asked
  /\ yes' = yes \cup {c}
  /\ UNCHANGED <<asked, stage>>

Run(c) ==
  /\ stage[c] = "idle"
  /\ c \in Gated => c \in yes
  /\ stage' = [stage EXCEPT ![c] = "running"]
  /\ UNCHANGED <<asked, yes>>

Refuse(c) ==
  /\ stage[c] = "idle"
  /\ stage' = [stage EXCEPT ![c] = "refused"]
  /\ UNCHANGED <<asked, yes>>

Finish(c) ==
  /\ stage[c] = "running"
  /\ stage' = [stage EXCEPT ![c] = "over"]
  /\ UNCHANGED <<asked, yes>>

Next ==
  \/ /\ up' = TRUE
     /\ \E c \in Calls : Ask(c) \/ SayYes(c) \/ Run(c) \/ Refuse(c) \/ Finish(c)
  \/ up' = FALSE

Spec == Init /\ [][Next]_<<asked, yes, stage, up>>

=============================================================================
