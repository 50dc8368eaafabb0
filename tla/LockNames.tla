------------------------------ MODULE LockNames ------------------------------
(***************************************************************************)
(* Who takes the lock on the index directory, and for what: With is called *)
(* with a repository's name, Global with none.                             *)
(* cmd/zoekt-sourcegraph-indexserver/index_mutex.go:28-31, 65-66.          *)
(***************************************************************************)
CONSTANTS Procs,      \* goroutines that operate on the index directory: queue workers,
                      \* debug handlers, cleanup, vacuum, merge
          Names,      \* repository names
          NoLock,     \* the goroutine operates on nothing
          GlobalLock  \* the goroutine operates on the whole directory

ASSUME LockAssumption ==
         NoLock \notin Names /\ GlobalLock \notin Names /\ NoLock # GlobalLock
=============================================================================
