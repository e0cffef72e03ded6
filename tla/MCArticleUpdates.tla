-------------------------- MODULE MCArticleUpdates --------------------------
(* Instances of ArticleUpdates for TLC. *)
EXTENDS ArticleUpdates
=============================================================================
