----------------------------- MODULE MCApproval -----------------------------
(***************************************************************************)
(* Small instances of Approval for TLC.                                    *)
(***************************************************************************)
EXTENDS Approval, TLC

CONSTANTS c1, c2, c3, c4, r1, r2

(* Two dangerous calls of different kinds, a harmless one and a name the   *)
(* model invented.                                                         *)
AllKinds ==
  (c1 :> "write_file" @@ c2 :> "bash" @@ c3 :> "bash" @@ c4 :> "no_such_tool")

OneGated == (c1 :> "edit_file")

MainRegistry == {"read_file", "write_file", "bash", "edit_file", "spawn_subagent"}

=============================================================================
