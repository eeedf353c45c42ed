----------------------------- MODULE MCScaleUp -----------------------------
(***************************************************************************)
(* Instance of ScaleUp for TLC: nodes are interchangeable.                 *)
(***************************************************************************)
EXTENDS ScaleUp, TLC

Symmetry == Permutations(Nodes)
=============================================================================
