----------------------------- MODULE MCIndexDir -----------------------------
(***************************************************************************)
(* IndexDir for TLC: two repositories.                                     *)
(***************************************************************************)
EXTENDS IndexDir

Shard(n, p, d) == [name |-> n, parts |-> p, docs |-> d]

\* r1 outgrows a shard, or loses all its documents; r2 is renamed.
Mixed == [r1 |-> <<Shard("a", 1, TRUE), Shard("a", 2, TRUE), Shard("a", 1, FALSE)>>,
          r2 |-> <<Shard("b", 1, TRUE), Shard("c", 1, TRUE), Shard("c", 1, TRUE)>>]
=============================================================================
