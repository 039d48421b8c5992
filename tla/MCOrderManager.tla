--------------------------- MODULE MCOrderManager ---------------------------
(* Three connections and two ids, so that two handlers can be past the limit *)
(* check while a third fills the last place, ids are reused, and a cancel    *)
(* meets a submission under way.  Sizes up to two allow a partial fill.      *)
EXTENDS OrderManager, TLC

Interchangeable == Permutations(Session) \cup Permutations(Clid)
=============================================================================
