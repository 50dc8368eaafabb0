------------------------------ MODULE RepoLock ------------------------------
(***************************************************************************)
(* What indexMutex promises to the operations that touch the index         *)
(* directory, with no lock, no counter and no waiting in sight: an         *)
(* operation on one repository excludes every other operation on that      *)
(* repository, and a global operation excludes everything.                 *)
(* cmd/zoekt-sourcegraph-indexserver/index_mutex.go:10-14, 28-31, 65-66.    *)
(***************************************************************************)
EXTENDS LockNames

VARIABLE held  \* held[p]: what p's callback f is running under

RepoLockInit == held = [p \in Procs |-> NoLock]

\* With's f starts for repository n.
StartRepo(p, n) ==
  /\ held[p] = NoLock
  /\ \A q \in Procs : held[q] \notin {n, GlobalLock}
  /\ held' = [held EXCEPT ![p] = n]

\* Global's f starts.
StartGlobal(p) ==
  /\ \A q \in Procs : held[q] = NoLock
  /\ held' = [held EXCEPT ![p] = GlobalLock]

\* f returns.
Finish(p) ==
  /\ held[p] # NoLock
  /\ held' = [held EXCEPT ![p] = NoLock]

RepoLockNext ==
  \E p \in Procs :
    \/ \E n \in Names : StartRepo(p, n)
    \/ StartGlobal(p)
    \/ Finish(p)

RepoLockSpec == RepoLockInit /\ [][RepoLockNext]_held
=============================================================================
