--------------------------- MODULE MCShardWatcher ---------------------------
(***************************************************************************)
(* ShardWatcher for TLC: one index in two format versions, and another.    *)
(***************************************************************************)
EXTENDS ShardWatcher

MCFiles == {"r16", "r17", "q16"}
MCName == [f \in MCFiles |-> IF f = "q16" THEN "q" ELSE "r"]
MCVersion == [f \in MCFiles |-> IF f = "r17" THEN 17 ELSE 16]
=============================================================================
