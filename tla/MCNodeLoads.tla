---------------------------- MODULE MCNodeLoads ----------------------------
(***************************************************************************)
(* A small instance of NodeLoads: three loaders that share a mesh, one of  *)
(* which also loads a texture it can do without.  As many entry objects as *)
(* loaders are enough: each live one is held by a loader.                  *)
(***************************************************************************)
EXTENDS NodeLoads

CONSTANTS w1, w2, w3, mesh, texture

MCLoaders == {w1, w2, w3}
MCKeys == {mesh, texture}
MCClosure == [w \in MCLoaders |-> IF w = w3 THEN {mesh, texture} ELSE {mesh}]
=============================================================================
