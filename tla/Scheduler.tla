----------------------------- MODULE Scheduler ------------------------------
(***************************************************************************)
(* multiScheduler (search/sched.go): every search holds a token of the     *)
(* interactive semaphore; one that has run for interactiveDuration gives   *)
(* it up at its next Yield and queues for one of the fewer batch tokens.   *)
(*                                                                         *)
(* The semaphores are golang.org/x/sync/semaphore.Weighted with weight 1:  *)
(* waiters are served in FIFO order, a released token is handed to the     *)
(* first waiter before that waiter wakes, and a waiter whose context has   *)
(* expired by the time it wakes gives the token back.                      *)
(***************************************************************************)
EXTENDS Naturals, Sequences, FiniteSets

CONSTANTS Procs,     \* searches
          Capacity,  \* capacity of the interactive semaphore, GOMAXPROCS
          BatchDiv   \* ZOEKTSCHED=batchdiv

ASSUME SchedAssumption ==
         /\ IsFiniteSet(Procs)
         /\ Capacity \in Nat \ {0}
         /\ BatchDiv \in Nat \ {0}

Sems == {"interactive", "batch"}

\* Mutation: a fraction that rounds down to nothing.
BatchCapNoFloor == Capacity \div BatchDiv

\* newMultiScheduler: a fraction of the capacity for batch, but never nothing.
BatchCap == IF Capacity \div BatchDiv = 0 THEN 1 ELSE Capacity \div BatchDiv

Cap(s) == IF s = "interactive" THEN Capacity ELSE BatchCap

VARIABLES cur,      \* cur[s]: tokens of s that are out
          waiters,  \* waiters[s]: who waits for a token of s, in order
          pc,       \* pc[p]: where p is
          sem,      \* sem[p]: the semaphore p waits for or holds a token of
          timer,    \* timer[p]: p.yieldTimer: armed, fired, or nil
          expired   \* expired[p]: p's context is done

vars == <<cur, waiters, pc, sem, timer, expired>>

Init ==
  /\ cur = [s \in Sems |-> 0]
  /\ waiters = [s \in Sems |-> <<>>]
  /\ pc = [p \in Procs |-> "idle"]
  /\ sem = [p \in Procs |-> "interactive"]
  /\ timer = [p \in Procs |-> "nil"]
  /\ expired = [p \in Procs |-> FALSE]

-----------------------------------------------------------------------------
(* semaphore.Weighted, weight 1.  pcAfter is where the caller's process is *)
(* when the call is over.                                                  *)

\* notifyWaiters: a free token goes to the first waiter.
Notify(s, n, q, pcAfter) ==
  IF q # <<>> /\ n < Cap(s)
  THEN /\ cur' = [cur EXCEPT ![s] = n + 1]
       /\ waiters' = [waiters EXCEPT ![s] = Tail(q)]
       /\ pc' = [pcAfter EXCEPT ![Head(q)] = "granted"]
  ELSE /\ cur' = [cur EXCEPT ![s] = n]
       /\ waiters' = [waiters EXCEPT ![s] = q]
       /\ pc' = pcAfter

\* Weighted.Release(1).
SemRelease(s, pcAfter) == Notify(s, cur[s] - 1, waiters[s], pcAfter)

\* Weighted.Acquire(ctx, 1) up to the point where it returns or waits.
SemAcquire(p, s, failed) ==
  \/ /\ expired[p]
     /\ pc' = [pc EXCEPT ![p] = failed]
     /\ UNCHANGED <<cur, waiters>>
  \/ /\ ~expired[p]
     /\ cur[s] < Cap(s) /\ waiters[s] = <<>>
     /\ cur' = [cur EXCEPT ![s] = @ + 1]
     /\ pc' = [pc EXCEPT ![p] = "acquired"]
     /\ UNCHANGED waiters
  \/ /\ ~expired[p]
     /\ ~(cur[s] < Cap(s) /\ waiters[s] = <<>>)
     /\ waiters' = [waiters EXCEPT ![s] = Append(@, p)]
     /\ pc' = [pc EXCEPT ![p] = "queued"]
     /\ UNCHANGED cur

-----------------------------------------------------------------------------
\* Where a failed Acquire leaves a process: Acquire's caller gets an error and
\* never runs, Yield's caller runs on with sem nil.
Failed(p) == IF sem[p] = "interactive" THEN "idle" ELSE "detached"

\* multiScheduler.Acquire starts.
Acquire(p) ==
  /\ pc[p] = "idle"
  /\ sem[p] = "interactive"
  /\ SemAcquire(p, "interactive", "idle")
  /\ UNCHANGED <<sem, timer, expired>>

\* The token is handed over while p is blocked; p wakes up.
Wake(p) ==
  /\ pc[p] = "granted"
  /\ IF expired[p]
     THEN SemRelease(sem[p], [pc EXCEPT ![p] = Failed(p)])
     ELSE pc' = [pc EXCEPT ![p] = "acquired"] /\ UNCHANGED <<cur, waiters>>
  /\ UNCHANGED <<sem, timer, expired>>

\* The sequence q without its k-th element.
Without(q, k) == [i \in 1..(Len(q) - 1) |-> IF i < k THEN q[i] ELSE q[i + 1]]

\* p's context expires before it gets a token: it leaves the queue, and if it
\* was the first and a token is free the next one gets it.
CancelWait(p) ==
  /\ pc[p] = "queued"
  /\ expired[p]
  /\ \E k \in DOMAIN waiters[sem[p]] :
       LET s == sem[p]
           q == Without(waiters[s], k)
           after == [pc EXCEPT ![p] = Failed(p)]
       IN  /\ waiters[s][k] = p
           /\ IF k = 1
              THEN Notify(s, cur[s], q, after)
              ELSE /\ waiters' = [waiters EXCEPT ![s] = q]
                   /\ pc' = after
                   /\ UNCHANGED cur
  /\ UNCHANGED <<sem, timer, expired>>

\* Mutation: the timer survives a successful yield.
AcquiredKeepTimer(p) ==
  /\ pc[p] = "acquired"
  /\ pc' = [pc EXCEPT ![p] = "running"]
  /\ timer' = [timer EXCEPT ![p] = IF sem[p] = "interactive" THEN "armed" ELSE @]
  /\ UNCHANGED <<cur, waiters, sem, expired>>

\* sema.Acquire returned nil: Acquire hands out a process with its timer
\* running, Yield stops the timer for good.
Acquired(p) ==
  /\ pc[p] = "acquired"
  /\ pc' = [pc EXCEPT ![p] = "running"]
  /\ timer' = [timer EXCEPT ![p] = IF sem[p] = "interactive" THEN "armed" ELSE "nil"]
  /\ UNCHANGED <<cur, waiters, sem, expired>>

\* yieldFunc, first half: give up the token, unless an earlier Yield did.
Yield(p) ==
  /\ timer[p] = "fired"
  /\ \/ /\ pc[p] = "running"
        /\ SemRelease(sem[p], [pc EXCEPT ![p] = "yielding"])
     \/ /\ pc[p] = "detached"
        /\ pc' = [pc EXCEPT ![p] = "yielding"]
        /\ UNCHANGED <<cur, waiters>>
  /\ sem' = [sem EXCEPT ![p] = "batch"]
  /\ UNCHANGED <<timer, expired>>

\* yieldFunc, second half: acquire a batch token.
AcquireBatch(p) ==
  /\ pc[p] = "yielding"
  /\ SemAcquire(p, "batch", "detached")
  /\ UNCHANGED <<sem, timer, expired>>

\* Mutation: a process that has yielded releases nothing.
ReleaseInteractiveOnly(p) ==
  /\ pc[p] \in {"running", "detached"}
  /\ IF pc[p] = "running" /\ sem[p] = "interactive"
     THEN SemRelease(sem[p], [pc EXCEPT ![p] = "idle"])
     ELSE pc' = [pc EXCEPT ![p] = "idle"] /\ UNCHANGED <<cur, waiters>>
  /\ sem' = [sem EXCEPT ![p] = "interactive"]
  /\ timer' = [timer EXCEPT ![p] = "nil"]
  /\ expired' = [expired EXCEPT ![p] = FALSE]

\* process.Release; the goroutine then serves its next request.
Release(p) ==
  /\ pc[p] \in {"running", "detached"}
  /\ IF pc[p] = "running"
     THEN SemRelease(sem[p], [pc EXCEPT ![p] = "idle"])
     ELSE pc' = [pc EXCEPT ![p] = "idle"] /\ UNCHANGED <<cur, waiters>>
  /\ sem' = [sem EXCEPT ![p] = "interactive"]
  /\ timer' = [timer EXCEPT ![p] = "nil"]
  /\ expired' = [expired EXCEPT ![p] = FALSE]

\* deadlineTimer: the deadline passes.
TimerFires(p) ==
  /\ pc[p] = "running" /\ timer[p] = "armed"
  /\ timer' = [timer EXCEPT ![p] = "fired"]
  /\ UNCHANGED <<cur, waiters, pc, sem, expired>>

\* The request is cancelled or times out.
Expire(p) ==
  /\ pc[p] # "idle" /\ ~expired[p]
  /\ expired' = [expired EXCEPT ![p] = TRUE]
  /\ UNCHANGED <<cur, waiters, pc, sem, timer>>

\* A request that failed to acquire is over.
NewRequest(p) ==
  /\ pc[p] = "idle" /\ expired[p]
  /\ expired' = [expired EXCEPT ![p] = FALSE]
  /\ UNCHANGED <<cur, waiters, pc, sem, timer>>

-----------------------------------------------------------------------------
Next ==
  \E p \in Procs :
    \/ Acquire(p) \/ Wake(p) \/ CancelWait(p) \/ Acquired(p)
    \/ Yield(p) \/ AcquireBatch(p) \/ Release(p)
    \/ TimerFires(p) \/ Expire(p) \/ NewRequest(p)

Spec == Init /\ [][Next]_vars

\* Goroutines that can run do, and every search ends.
Fairness ==
  \A p \in Procs :
    WF_vars(Wake(p) \/ CancelWait(p) \/ Acquired(p) \/ AcquireBatch(p) \/ Release(p))

FairSpec == Spec /\ Fairness

-----------------------------------------------------------------------------
States == {"idle", "queued", "granted", "acquired", "running", "yielding", "detached"}

\* Every variable holds a value of its kind.
TypeOK ==
  /\ cur \in [Sems -> Nat]
  /\ waiters \in [Sems -> Seq(Procs)]
  /\ pc \in [Procs -> States]
  /\ sem \in [Procs -> Sems]
  /\ timer \in [Procs -> {"armed", "fired", "nil"}]
  /\ expired \in [Procs -> BOOLEAN]

\* The processes a token of s is out for.
Holders(s) ==
  {p \in Procs : sem[p] = s /\ pc[p] \in {"granted", "acquired", "running"}}

\* No token is lost and none is returned twice, whichever of cancellation,
\* hand-over, a failed yield and Release come in which order.  One too few
\* shrinks the server for good; one too many panics in Weighted.Release.
TokensExact == \A s \in Sems : cur[s] = Cardinality(Holders(s))

\* No more searches run than there are tokens: sched.go:61-68, 104.
CapacityRespected == \A s \in Sems : Cardinality(Holders(s)) <= Cap(s)

\* A search never goes back from batch to the interactive semaphore, and yields
\* at most once with success: after that its timer is nil.
BatchForGood ==
  [][\A p \in Procs : pc[p] = "running" /\ sem[p] = "batch"
                        => pc'[p] \in {"running", "idle"}]_vars

\* Whoever waits for a token gets it or gives up: FIFO, and nobody starves.
WaitEnds ==
  \A p \in Procs : (pc[p] = "queued") ~> (pc[p] # "queued")
=============================================================================
