---------------------------- MODULE MCAgentLoop -----------------------------
(***************************************************************************)
(* Small instances of AgentLoop for TLC.                                   *)
(***************************************************************************)
EXTENDS AgentLoop

CONSTANTS r1, r2, s1, chat

(* Two prompts in one chat.                                                *)
OneChat == [r \in {r1, r2} |-> chat]

=============================================================================
