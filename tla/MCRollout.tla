----------------------------- MODULE MCRollout -----------------------------
(***************************************************************************)
(* Instance of Rollout for TLC: one, two or three replicas.                *)
(***************************************************************************)
EXTENDS Rollout

MCNodeCounts == {0, 2, 3, 6}
=============================================================================
