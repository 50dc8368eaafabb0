---------------------------- MODULE InputPipeline ----------------------------
(***************************************************************************)
(* streamPreparedFiles of cmd/zoekt-index/pipeline.go: one goroutine walks *)
(* the roots, several read and check files, and the caller commits them to *)
(* the Builder in the order of the walk.  A window and a byte budget bound *)
(* what is in memory; the first error stops everyone.                      *)
(***************************************************************************)
EXTENDS Naturals, Sequences, FiniteSets, Functions

CONSTANTS Workers,  \* goroutines that may read files
          N,        \* bound: files the walk finds
          Walks,    \* what a walk may find: size, and whether LargeFiles allows more than SizeMax
          SizeMax,  \* Options.SizeMax
          Bytes     \* inputBufferBytes

ASSUME PipelineAssumption ==
  /\ IsFiniteSet(Workers) /\ Workers # {}
  /\ N \in Nat /\ SizeMax \in Nat /\ Bytes \in Nat \ {0}
  /\ Walks \subseteq [1 .. N -> [size : Nat, allowed : BOOLEAN]]

Tasks == 1 .. N

VARIABLES
  workers,    \* the readers this call has; their number is its argument
  file,       \* file[t]: the t-th file of the walk
  walker, next,       \* the walking goroutine, and the file it is at
  window, used,       \* elements of window; bytes taken from budget
  worker,     \* worker[w]: the task of w, Idle or Exited
  ordered, orderedClosed, jobsClosed,
  ready,      \* tasks whose ready channel has the document
  committer, task,    \* the calling goroutine, and its task
  cause,      \* what ctx was cancelled with
  ticker,     \* the progress goroutine runs
  result,
  committed,  \* history: what was committed, in that order
  flight      \* history: tasks that hold budget

argVars == <<workers, file>>
walkVars == <<walker, next, orderedClosed, jobsClosed>>
commitVars == <<committer, task, result, committed>>
vars == <<argVars, walkVars, window, used, worker, ordered, ready, commitVars, cause, ticker, flight>>

NoTask == 0
Idle == 0
Exited == N + 1

\* A file too large to be indexed is not read.
Skipped(t) == file[t].size > SizeMax /\ ~file[t].allowed

Least(a, b) == IF a < b THEN a ELSE b
Most(a, b) == IF a > b THEN a ELSE b

\* Mutation: an oversized file reserves one byte.
WeightTiny(t) == IF Skipped(t) \/ file[t].size > Bytes THEN 1 ELSE Most(1, file[t].size)

\* What a file takes from the budget.
Weight(t) == IF Skipped(t) THEN 1 ELSE Least(Bytes, Most(1, file[t].size))

Cancelled == cause # "none"
\* The first cause stays.
Cancel(why) == cause' = IF Cancelled THEN cause ELSE why

Init ==
  /\ workers \in (SUBSET Workers) \ {{}} /\ file \in Walks
  /\ walker = "walk" /\ next = 1 /\ window = 0 /\ used = 0
  /\ worker = [w \in Workers |-> IF w \in workers THEN Idle ELSE Exited]
  /\ ordered = <<>> /\ orderedClosed = FALSE /\ jobsClosed = FALSE
  /\ ready = {} /\ committer = "take" /\ task = NoTask
  /\ cause = "none" /\ ticker = TRUE /\ result = "none" /\ committed = <<>> /\ flight = {}

(***************************************************************************)
(* The walk.                                                               *)
(***************************************************************************)
\* The next file that is to be indexed.
Visit ==
  /\ walker = "walk" /\ next <= N /\ ~Cancelled
  /\ walker' = "window"
  /\ UNCHANGED <<argVars, next, orderedClosed, jobsClosed, window, used, worker, ordered, ready, commitVars, cause, ticker, flight>>

WalkDone ==
  /\ walker = "walk" /\ next > N
  /\ walker' = "closeOrdered"
  /\ UNCHANGED <<argVars, next, orderedClosed, jobsClosed, window, used, worker, ordered, ready, commitVars, cause, ticker, flight>>

\* Mutation: the walk ends at an error as if it were done.
WalkFailsQuietly ==
  /\ walker = "walk"
  /\ walker' = "closeOrdered" /\ UNCHANGED cause
  /\ UNCHANGED <<argVars, next, orderedClosed, jobsClosed, window, used, worker, ordered, ready, commitVars, ticker, flight>>

\* WalkDir or d.Info fails.
WalkFails ==
  /\ walker = "walk"
  /\ walker' = "closeOrdered" /\ Cancel("walk")
  /\ UNCHANGED <<argVars, next, orderedClosed, jobsClosed, window, used, worker, ordered, ready, commitVars, ticker, flight>>

EnterWindow ==
  /\ walker = "window" /\ window < 2 * Cardinality(workers)
  /\ window' = window + 1 /\ walker' = "budget"
  /\ UNCHANGED <<argVars, next, orderedClosed, jobsClosed, used, worker, ordered, ready, commitVars, cause, ticker, flight>>

\* budget.Acquire.
AcquireBudget ==
  /\ walker = "budget" /\ used + Weight(next) <= Bytes
  /\ used' = used + Weight(next) /\ flight' = flight \union {next} /\ walker' = "send"
  /\ UNCHANGED <<argVars, next, orderedClosed, jobsClosed, window, worker, ordered, ready, commitVars, cause, ticker>>

\* jobs <- task; the channel has no buffer.
SendJob(w) ==
  /\ walker = "send" /\ worker[w] = Idle
  /\ worker' = [worker EXCEPT ![w] = next] /\ walker' = "order"
  /\ UNCHANGED <<argVars, next, orderedClosed, jobsClosed, window, used, ordered, ready, commitVars, cause, ticker, flight>>

\* ordered <- task.
SendOrdered ==
  /\ walker = "order" /\ Len(ordered) < Cardinality(workers)
  /\ ordered' = Append(ordered, next) /\ next' = next + 1 /\ walker' = "walk"
  /\ UNCHANGED <<argVars, orderedClosed, jobsClosed, window, used, worker, ready, commitVars, cause, ticker, flight>>

\* The walk is at a file, or waits, and ctx is done.
WalkStops ==
  /\ walker \in {"walk", "window", "budget", "send", "order"} /\ Cancelled
  /\ walker' = "closeOrdered"
  /\ UNCHANGED <<argVars, next, orderedClosed, jobsClosed, window, used, worker, ordered, ready, commitVars, cause, ticker, flight>>

\* The deferred calls, last first.
Close ==
  \/ /\ walker = "closeOrdered" /\ walker' = "closeJobs" /\ orderedClosed' = TRUE
     /\ UNCHANGED <<argVars, next, jobsClosed, window, used, worker, ordered, ready, commitVars, cause, ticker, flight>>
  \/ /\ walker = "closeJobs" /\ walker' = "exited" /\ jobsClosed' = TRUE
     /\ UNCHANGED <<argVars, next, orderedClosed, window, used, worker, ordered, ready, commitVars, cause, ticker, flight>>

(***************************************************************************)
(* The readers.                                                            *)
(***************************************************************************)
\* readFile and prepare, then task.ready, which has room for it.
Prepare(w) ==
  /\ worker[w] \in Tasks
  /\ ready' = ready \union {worker[w]} /\ worker' = [worker EXCEPT ![w] = Idle]
  /\ UNCHANGED <<argVars, walkVars, window, used, ordered, commitVars, cause, ticker, flight>>

ReadFails(w) ==
  /\ worker[w] \in Tasks /\ ~Skipped(worker[w])
  /\ worker' = [worker EXCEPT ![w] = Exited] /\ Cancel("read")
  /\ UNCHANGED <<argVars, walkVars, window, used, ordered, ready, commitVars, ticker, flight>>

WorkerExits(w) ==
  /\ worker[w] = Idle /\ (Cancelled \/ jobsClosed)
  /\ worker' = [worker EXCEPT ![w] = Exited]
  /\ UNCHANGED <<argVars, walkVars, window, used, ordered, ready, commitVars, cause, ticker, flight>>

TickerExits ==
  /\ ticker /\ Cancelled /\ ticker' = FALSE
  /\ UNCHANGED <<argVars, walkVars, window, used, worker, ordered, ready, commitVars, cause, flight>>

(***************************************************************************)
(* The caller.                                                             *)
(***************************************************************************)
TakeOrdered ==
  /\ committer = "take" /\ ordered # <<>>
  /\ task' = Head(ordered) /\ ordered' = Tail(ordered) /\ committer' = "await"
  /\ UNCHANGED <<argVars, walkVars, window, used, worker, ready, result, committed, cause, ticker, flight>>

\* commit is AddPrepared of the Builder.
Commit(ok) ==
  /\ committer = "await" /\ task \in ready
  /\ committed' = IF ok THEN Append(committed, task) ELSE committed
  /\ used' = used - Weight(task) /\ flight' = flight \ {task}
  /\ window' = window - 1 /\ task' = NoTask
  /\ IF ok THEN committer' = "take" /\ UNCHANGED result ELSE committer' = "cancel" /\ result' = "commit"
  /\ UNCHANGED <<argVars, walkVars, worker, ordered, ready, cause, ticker>>

\* context.Cause: ctx is done, or the walk is over and all it sent is committed.
Stop ==
  /\ \/ committer \in {"take", "await"} /\ Cancelled
     \/ committer = "take" /\ ordered = <<>> /\ orderedClosed
  /\ committer' = "cancel" /\ result' = cause
  /\ UNCHANGED <<argVars, walkVars, window, used, worker, ordered, ready, task, committed, cause, ticker, flight>>

\* Mutation: the deferred function does not cancel.
CancelNot ==
  /\ committer = "cancel" /\ committer' = "wait"
  /\ UNCHANGED <<argVars, walkVars, window, used, worker, ordered, ready, task, result, committed, cause, ticker, flight>>

\* cancel(nil), deferred.
CancelAll ==
  /\ committer = "cancel" /\ committer' = "wait" /\ Cancel("canceled")
  /\ UNCHANGED <<argVars, walkVars, window, used, worker, ordered, ready, task, result, committed, ticker, flight>>

\* wg.Wait returns.
Join ==
  /\ committer = "wait" /\ walker = "exited" /\ ~ticker /\ \A w \in Workers : worker[w] = Exited
  /\ committer' = "returned"
  /\ UNCHANGED <<argVars, walkVars, window, used, worker, ordered, ready, task, result, committed, cause, ticker, flight>>

Walk == Visit \/ WalkDone \/ EnterWindow \/ AcquireBudget \/ SendOrdered \/ WalkStops \/ Close
        \/ \E w \in Workers : SendJob(w)
Work(w) == Prepare(w) \/ WorkerExits(w)
Caller == TakeOrdered \/ Stop \/ CancelAll \/ Join \/ Commit(TRUE)

Next ==
  \/ Walk \/ WalkFails
  \/ \E w \in Workers : Work(w) \/ ReadFails(w)
  \/ TickerExits
  \/ Caller \/ Commit(FALSE)

Spec == Init /\ [][Next]_vars

\* Goroutines go on; reading, walking and committing need not fail.
FairSpec == /\ Spec /\ WF_vars(Walk) /\ WF_vars(TickerExits) /\ WF_vars(Caller)
            /\ \A w \in Workers : WF_vars(Work(w))

(***************************************************************************)
(* Properties                                                              *)
(***************************************************************************)
\* The variables have their types; nothing goes below zero.
TypeOK ==
  /\ workers \in SUBSET Workers /\ file \in Walks
  /\ walker \in {"walk", "window", "budget", "send", "order", "closeOrdered", "closeJobs", "exited"}
  /\ next \in 1 .. N + 1 /\ window \in Nat /\ used \in Nat
  /\ worker \in [Workers -> Tasks \union {Idle, Exited}]
  /\ ordered \in Seq(Tasks) /\ orderedClosed \in BOOLEAN /\ jobsClosed \in BOOLEAN
  /\ ready \subseteq Tasks /\ task \in Tasks \union {NoTask}
  /\ committer \in {"take", "await", "cancel", "wait", "returned"}
  /\ cause \in {"none", "walk", "read", "canceled"} /\ ticker \in BOOLEAN
  /\ result \in {"none", "walk", "read", "commit", "canceled"}
  /\ committed \in Seq(Tasks) /\ flight \subseteq Tasks

\* "commits in traversal order": each file once, in whatever order the readers finish.
InOrder == \A i \in DOMAIN committed : committed[i] = i

\* Without an error every file of the walk has been committed: no race of the last commit,
\* the closing of the channels and a failing reader ends in nil.
NilMeansAll == committer = "returned" /\ result = "none" => Len(committed) = N

\* What streamPreparedFiles promises of its commits.
CommitsAll == InOrder /\ NilMeansAll

Buffered == {t \in flight : ~Skipped(t)}
Sizes == [t \in Tasks |-> file[t].size]

\* "Limit both file count and estimated content bytes, including completed results waiting
\* for an earlier file"; a file larger than the budget is alone.
BufferBounded ==
  /\ Cardinality(flight) <= 2 * Cardinality(workers)
  /\ \/ SumFunctionOnSet(Sizes, Buffered) <= Bytes
     \/ Cardinality(flight) = 1

\* "All goroutines are joined before returning": and so it does return, whoever fails while
\* others wait for a channel, the budget or each other.
Returns == <>(committer = "returned")
=============================================================================
