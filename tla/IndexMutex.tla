----------------------------- MODULE IndexMutex -----------------------------
(***************************************************************************)
(* indexMutex (cmd/zoekt-sourcegraph-indexserver/index_mutex.go): the lock *)
(* on the index directory.  Global(f) takes indexMu for writing; With(n,f)  *)
(* takes it for reading and then claims n in the map running, or gives up   *)
(* when n is claimed already.                                              *)
(*                                                                         *)
(* indexMu is a sync.RWMutex.  Its two properties the code relies on are   *)
(* modelled: a writer that has announced itself stops new readers, which   *)
(* park, and Unlock admits every reader parked at that time.  A critical   *)
(* section of runningMu is one step.                                       *)
(***************************************************************************)
EXTENDS FiniteSets, LockNames

CONSTANT NoProc  \* no writer holds or awaits indexMu

ASSUME NoProcAssumption == NoProc \notin Procs

VARIABLES pc,       \* pc[p]: where p is in With or Global
          name,     \* name[p]: the repoName p last called With for
          readers,  \* goroutines holding indexMu for reading
          parked,   \* goroutines waiting in RLock
          writer,   \* the goroutine holding or awaiting indexMu for writing
          running   \* m.running

vars == <<pc, name, readers, parked, writer, running>>

Init ==
  /\ pc = [p \in Procs |-> "idle"]
  /\ name \in [Procs -> Names]
  /\ readers = {}
  /\ parked = {}
  /\ writer = NoProc
  /\ running = {}

-----------------------------------------------------------------------------
(* sync.RWMutex                                                            *)

\* RLock: counted as a reader at once, unless a writer has announced itself.
RLock(p) ==
  IF writer = NoProc
  THEN /\ readers' = readers \cup {p}
       /\ parked' = parked
       /\ pc' = [pc EXCEPT ![p] = "check"]
  ELSE /\ parked' = parked \cup {p}
       /\ readers' = readers
       /\ pc' = [pc EXCEPT ![p] = "parked"]

\* RUnlock: the reader no longer counts.
RUnlock(p) == readers' = readers \ {p}

\* Unlock: the writer leaves and every parked reader becomes a reader.
WUnlock(p) ==
  /\ writer' = NoProc
  /\ readers' = readers \cup parked
  /\ parked' = {}
  /\ pc' = [q \in Procs |-> IF q = p THEN "idle"
                            ELSE IF q \in parked THEN "check" ELSE pc[q]]

-----------------------------------------------------------------------------
(* With                                                                    *)

CallWith(p, n) ==
  /\ pc[p] = "idle"
  /\ name' = [name EXCEPT ![p] = n]
  /\ RLock(p)
  /\ UNCHANGED <<writer, running>>

\* The check-and-set of running under runningMu.  running[n] is written
\* whether or not it was there; only the goroutine that found it absent goes
\* on to f and to the deferred delete.
CheckRunning(p) ==
  /\ pc[p] = "check"
  /\ running' = running \cup {name[p]}
  /\ pc' = [pc EXCEPT ![p] = IF name[p] \in running THEN "skip" ELSE "run"]
  /\ UNCHANGED <<name, readers, parked, writer>>

\* f returns and the deferred function deletes running[n].
ReleaseRunning(p) ==
  /\ pc[p] = "run"
  /\ running' = running \ {name[p]}
  /\ pc' = [pc EXCEPT ![p] = "done"]
  /\ UNCHANGED <<name, readers, parked, writer>>

\* Mutation: the delete is deferred before the early return.
ReturnWithDelete(p) ==
  /\ pc[p] \in {"skip", "done"}
  /\ RUnlock(p)
  /\ running' = running \ {name[p]}
  /\ pc' = [pc EXCEPT ![p] = "idle"]
  /\ UNCHANGED <<name, parked, writer>>

\* The deferred RUnlock, on the way out of a run (true) or a skip (false).
ReturnWith(p) ==
  /\ pc[p] \in {"skip", "done"}
  /\ RUnlock(p)
  /\ pc' = [pc EXCEPT ![p] = "idle"]
  /\ UNCHANGED <<name, parked, writer, running>>

-----------------------------------------------------------------------------
(* Global                                                                  *)

CallGlobal(p) ==
  /\ pc[p] = "idle"
  /\ pc' = [pc EXCEPT ![p] = "lock"]
  /\ UNCHANGED <<name, readers, parked, writer, running>>

\* Mutation: Global polls with TryLock instead of announcing itself.
AnnounceTryLock(p) ==
  /\ pc[p] = "lock"
  /\ writer = NoProc
  /\ readers = {}
  /\ writer' = p
  /\ pc' = [pc EXCEPT ![p] = "drain"]
  /\ UNCHANGED <<name, readers, parked, running>>

\* Lock, first half: writers exclude each other and the first announces itself.
Announce(p) ==
  /\ pc[p] = "lock"
  /\ writer = NoProc
  /\ writer' = p
  /\ pc' = [pc EXCEPT ![p] = "drain"]
  /\ UNCHANGED <<name, readers, parked, running>>

\* Mutation: the writer does not wait for the readers.
EnterGlobalAtOnce(p) ==
  /\ pc[p] = "drain"
  /\ pc' = [pc EXCEPT ![p] = "global"]
  /\ UNCHANGED <<name, readers, parked, writer, running>>

\* Lock, second half: the readers that were there have left; f starts.
EnterGlobal(p) ==
  /\ pc[p] = "drain"
  /\ readers = {}
  /\ pc' = [pc EXCEPT ![p] = "global"]
  /\ UNCHANGED <<name, readers, parked, writer, running>>

\* f returns and the deferred Unlock runs.
ReturnGlobal(p) ==
  /\ pc[p] = "global"
  /\ WUnlock(p)
  /\ UNCHANGED <<name, running>>

-----------------------------------------------------------------------------
\* The steps the mutex itself takes for a goroutine that is inside it.
Inside(p) ==
  \/ CheckRunning(p)
  \/ ReleaseRunning(p)
  \/ ReturnWith(p)
  \/ Announce(p)
  \/ EnterGlobal(p)
  \/ ReturnGlobal(p)

Next ==
  \E p \in Procs :
    \/ \E n \in Names : CallWith(p, n)
    \/ CallGlobal(p)
    \/ Inside(p)

Spec == Init /\ [][Next]_vars

\* Nobody has to call With or Global.  A goroutine inside one of them keeps
\* running; f itself ends because every index and merge command has a timeout.
\* sync.Mutex hands the lock over in FIFO order once a waiter has starved for
\* 1ms, which is strong fairness of Announce.
Fairness ==
  \A p \in Procs :
    /\ WF_vars(CheckRunning(p))
    /\ WF_vars(ReleaseRunning(p))
    /\ WF_vars(ReturnWith(p))
    /\ SF_vars(Announce(p))
    /\ WF_vars(EnterGlobal(p))
    /\ WF_vars(ReturnGlobal(p))

FairSpec == Spec /\ Fairness

-----------------------------------------------------------------------------
States == {"idle", "parked", "check", "run", "skip", "done",
           "lock", "drain", "global"}

\* Every variable holds a value of its kind.
TypeOK ==
  /\ pc \in [Procs -> States]
  /\ name \in [Procs -> Names]
  /\ readers \subseteq Procs
  /\ parked \subseteq Procs
  /\ writer \in Procs \cup {NoProc}
  /\ running \subseteq Names

\* Global's comment: "IE no other Global or With f's will be running."
GlobalExclusive ==
  \A p, q \in Procs :
    pc[p] = "global" /\ p # q => pc[q] \notin {"run", "global"}

\* With's comment: "runs f if no other f with the same repoName is running."
OneJobPerRepo ==
  \A p, q \in Procs :
    pc[p] = "run" /\ pc[q] = "run" /\ name[p] = name[q] => p = q

\* running holds exactly the names whose f is running.  A name left behind
\* would make every later With for that repository return false for ever; one
\* deleted early would let two jobs on a repository run at once.
RunningExact ==
  running = {name[p] : p \in {q \in Procs : pc[q] = "run"}}

\* A goroutine that waits for the read lock is admitted, however many Globals
\* are queued: Unlock lets parked readers in before the next writer.
\* Global runs even if With is called again and again: an announced writer stops
\* new readers.
NobodyStarves ==
  \A p \in Procs : /\ (pc[p] = "parked") ~> (pc[p] \in {"run", "skip"})
                   /\ (pc[p] = "lock") ~> (pc[p] = "global")

-----------------------------------------------------------------------------
(* Refinement: indexMutex implements RepoLock.                             *)

heldBar ==
  [p \in Procs |-> IF pc[p] = "run" THEN name[p]
                   ELSE IF pc[p] = "global" THEN GlobalLock ELSE NoLock]

Abstract == INSTANCE RepoLock WITH held <- heldBar

\* Every step of With and Global starts a permitted operation, finishes one,
\* or is invisible to the holders of the lock.
ImplementsRepoLock == Abstract!RepoLockSpec
=============================================================================
