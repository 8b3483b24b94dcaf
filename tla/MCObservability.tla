-------------------------- MODULE MCObservability ---------------------------
(***************************************************************************)
(* Two runs in one chat; the first may call two tools at once, the first   *)
(* of which may, as a sub-agent, call two more, at once or one after the   *)
(* other; these two are alike.                                             *)
(***************************************************************************)
EXTENDS Observability, TLC

CONSTANTS r1, r2, t1, t2, t3, t4, chat

MCOf == [t \in {t1, t2, t3, t4} |-> IF t \in {t3, t4} THEN t1 ELSE r1]

MCChat == [a \in {r1, r2, t1, t2, t3, t4} |-> chat]

Alike == Permutations({t3, t4})

=============================================================================
