-------------------------- MODULE MCRecipeVersions --------------------------
(* Instances of RecipeVersions for TLC. *)
EXTENDS RecipeVersions, TLC

Symmetry == Permutations(Request)
=============================================================================
