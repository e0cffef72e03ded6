------------------------- MODULE MCArticlePipeline -------------------------
(* Instances of ArticlePipeline for TLC. *)
EXTENDS ArticlePipeline, TLC

Symmetry == Permutations(User) \cup Permutations(Request)
=============================================================================
