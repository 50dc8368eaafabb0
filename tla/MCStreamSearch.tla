--------------------------- MODULE MCStreamSearch ---------------------------
(***************************************************************************)
(* StreamSearch for TLC: two or three shards, two workers.                 *)
(***************************************************************************)
EXTENDS StreamSearch

\* A shard of one repository; the candidates that match come first when all do not.
Simple(priority, matching) ==
  [repos |-> <<priority>>, docs |-> [i \in 1..2 |-> [repo |-> 1, match |-> i <= matching]]]

\* Three shards, the one that ranks highest first; the last has no candidates.
SimpleShards ==
  [s \in 1..3 |-> [repos |-> <<4 - s>>, docs |-> IF s = 3 THEN <<>> ELSE <<[repo |-> 1, match |-> TRUE]>>]]

\* Two shards of equal priority with two documents each.
LongShards == <<Simple(2, 2), Simple(2, 2)>>

\* A shard some of whose candidates may not match, and one without candidates.
SparseShards(matching) == <<Simple(2, matching), [repos |-> <<1>>, docs |-> <<>>]>>

\* A compound shard of two repositories; the other shard ranks between them.
CompoundShards ==
  << [repos |-> <<1, 3>>, docs |-> <<[repo |-> 1, match |-> TRUE], [repo |-> 2, match |-> TRUE]>>],
     [repos |-> <<2>>, docs |-> <<[repo |-> 1, match |-> TRUE]>>] >>

\* A search without limits of its own.
Plain(shards, isStreaming) ==
  [total |-> 0, shard |-> 0, shardRepo |-> 0, display |-> 0, matchDisplay |-> 0, budget |-> 4,
   streaming |-> isStreaming, collecting |-> FALSE, ready |-> TRUE, shards |-> shards]

\* Search without limits, and with each limit in turn.
SearchOptions ==
  {Plain(LongShards, FALSE), [Plain(SparseShards(2), FALSE) EXCEPT !.ready = FALSE],
   [Plain(LongShards, FALSE) EXCEPT !.shard = 1],
   [Plain(LongShards, FALSE) EXCEPT !.matchDisplay = 2],
   [Plain(CompoundShards, FALSE) EXCEPT !.shardRepo = 1, !.budget = 2]}

\* Limits that are reached when nothing that matches is left.
SparseOptions ==
  {[Plain(SparseShards(2), FALSE) EXCEPT !.total = 1], [Plain(SparseShards(1), FALSE) EXCEPT !.shard = 1],
   [Plain(SparseShards(1), TRUE) EXCEPT !.shardRepo = 1, !.display = 2, !.matchDisplay = 1]}

\* StreamSearch: over the compound shard, collecting with a display limit and without,
\* and over the three shards.
StreamOptions ==
  {[Plain(CompoundShards, TRUE) EXCEPT !.display = 2, !.collecting = TRUE],
   Plain(CompoundShards, TRUE), [Plain(SimpleShards, TRUE) EXCEPT !.display = 2]}

MCOptions == SearchOptions \cup SparseOptions \cup StreamOptions
=============================================================================
