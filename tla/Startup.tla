------------------------------ MODULE Startup -------------------------------
(***************************************************************************)
(* What an agent starts with: the tools of McpStartup and the prompt of    *)
(* Prompt.  A run builds its prompt before it calls any tool, from what is *)
(* on the disk then.                                                       *)
(***************************************************************************)
EXTENDS McpStartup, Prompt

CONSTANT Disks   (* what may be on the disk                                *)

(* What the walk comes upon is a sequence.  A directory has one SKILL.md at *)
(* most, and a path that is no white space.                                *)
ASSUME DisksAssumption ==
  \A d \in Disks :
    /\ d.tree \in Seq(ToSet(d.tree))
    /\ \A f \in ToSet(d.tree) : f.kind = "skill" => f.content \in Text /\ f.dir \notin Blank
    /\ \A f, g \in ToSet(d.tree) :
         f.kind = "skill" /\ g.kind = "skill" /\ f.dir = g.dir => f = g

VARIABLES
  disk,     (* what the run has found there                               *)
  prompt    (* its system message                                         *)

startupVars == <<vars, disk, prompt>>

StartupInit == Init /\ disk = NoFile /\ prompt = <<>>

(* The servers have no part in the prompt: processes with servers do not   *)
(* need to build one, which bounds the states.                             *)
StartRun(d) ==
  /\ phase = "serve" /\ calls = {} /\ prompt = <<>>
  /\ Configured = {}
  /\ disk' = d
  /\ prompt' = Build(d)
  /\ UNCHANGED vars

StartupNext ==
  \/ Next /\ UNCHANGED <<disk, prompt>>
  \/ \E d \in Disks : StartRun(d)

StartupSpec == StartupInit /\ [][StartupNext]_startupVars

-----------------------------------------------------------------------------
(* The two properties of the prompt, of the one the run is sent with.      *)
FrontmatterExact == prompt # <<>> => FrontmatterFaithful(disk, prompt)

SkillsResilient == prompt # <<>> => SkillsKept(disk, prompt)

=============================================================================
