----------------------------- MODULE MCSyncLoop -----------------------------
(***************************************************************************)
(* SyncLoop for TLC: two repositories, one worker, and an old shard in the   *)
(* index or in the trash.                                                   *)
(***************************************************************************)
EXTENDS SyncLoop, TLC

CONSTANTS r1, r2, w1, cleaner, forcer, deleter

MCRepos == {r1, r2}
MCNames == {r1, r2, NoRepo}
MCWorkers == {w1}
MCProcs == {w1, cleaner, forcer, deleter}
MCDelta == {r1}

C(b, m) == [b |-> b, m |-> m, t |-> TRUE]
NoTenant == [b |-> 1, m |-> 0, t |-> FALSE]

\* r1 has branches and an old shard whose metadata differs; r2 is an empty
\* repository with a shard of other days in the trash.
MCConfs == (r1 :> {C(1, 0), C(2, 0)}) @@ (r2 :> {C(0, 0), NoTenant})
MCFirst == (r1 :> C(1, 0)) @@ (r2 :> C(0, 0))
MCLeft == {[disk  |-> (r1 :> C(1, 1)) @@ (r2 :> Nothing),
            trash |-> (r1 :> Nothing) @@ (r2 :> C(1, 0))]}

Budget(c, f, q) == [changes |-> c, faults |-> f, requests |-> q]
MCBudgets == {Budget(1, 1, 0), Budget(0, 0, 1)}
=============================================================================
