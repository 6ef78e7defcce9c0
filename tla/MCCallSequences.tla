-------------------------- MODULE MCCallSequences --------------------------
(***************************************************************************)
(* Instances of the components whose calls come one at a time: the payload *)
(* cache and the scene world.  They share no state, so that a run takes    *)
(* one of them: what it explores is their sum, not their product.          *)
(*                                                                         *)
(* The cache: a model that requires a mesh, which requires a texture.      *)
(* With the second version of its source the model requires the texture    *)
(* too, and the mesh nothing.                                              *)
(***************************************************************************)
EXTENDS RuntimeCache, SceneWorld, TLC

CONSTANTS model, mesh, texture, s1, s2, s3

VARIABLE workload

MCKeys == {model, mesh, texture}

MCRequired == [kv \in MCKeys \X {1, 2} |->
    CASE kv = <<model, 1>> -> {mesh}
      [] kv = <<model, 2>> -> {mesh, texture}
      [] kv = <<mesh, 1>>  -> {texture}
      [] OTHER             -> {}]

MCBytes == [kv \in MCKeys \X {1, 2} |-> kv[2]]

\* A stretch and an eighth of a turn: one after the other shears, or does not.
MCEditedTransforms == {[turn |-> 0, stretch |-> 1], [turn |-> 1, stretch |-> 0]}

Symmetry == Permutations(Slots)

MCInit ==
    /\ Init /\ SceneInit
    /\ workload \in {"cache", "scene"}

MCNext ==
    /\ \/ workload = "cache" /\ Next /\ UNCHANGED sceneVars
       \/ workload = "scene" /\ SceneNext /\ UNCHANGED vars
    /\ UNCHANGED workload

MCSpec == MCInit /\ [][MCNext]_<<workload, vars, sceneVars>>
=============================================================================
