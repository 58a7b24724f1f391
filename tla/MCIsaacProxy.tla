---------------------------- MODULE MCIsaacProxy ----------------------------
(***************************************************************************)
(* Instances of IsaacProxy for TLC: two runtimes that share a scene.       *)
(***************************************************************************)
EXTENDS IsaacProxy

CONSTANT s1   \* the scene of both runtimes

MCSceneOf == [r \in Runtime |-> s1]
=============================================================================
