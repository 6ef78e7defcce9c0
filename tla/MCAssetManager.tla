--------------------------- MODULE MCAssetManager ---------------------------
(***************************************************************************)
(* Small instances of AssetManager for TLC.                                *)
(***************************************************************************)
EXTENDS AssetManager, TLC

Symmetry == Permutations(Clients) \cup Permutations(Workers)
=============================================================================
