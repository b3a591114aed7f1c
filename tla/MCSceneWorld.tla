---------------------------- MODULE MCSceneWorld ----------------------------
(* SceneWorld for TLC: the obstacles differ in nothing but their names. *)
EXTENDS SceneWorld, TLC

Interchangeable == Permutations(Objects)
=============================================================================
