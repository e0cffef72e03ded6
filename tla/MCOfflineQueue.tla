--------------------------- MODULE MCOfflineQueue ---------------------------
(* Instances of OfflineQueue for TLC. *)
EXTENDS OfflineQueue
Do(type, list, fav) == [type |-> type, art |-> "a1", list |-> list, fav |-> fav]
UserOperations ==
    {Do("parse_article", "null", "null"), Do("delete_article", "null", "null"),
     Do("set_article_state", "archive", "null")}
=============================================================================
